---- MODULE Spec2Model ----
(***************************************************************************)
(* sshget: the transfer scheduler (SSHGet.downloadFiles), the agent pool   *)
(* (AgentPool.acquire / release / markUnhealthy / close) and the           *)
(* downloader's temp-file discipline (Downloader.downloadFile /            *)
(* downloadRange / finalizeFile), modelled as one state machine.           *)
(*                                                                         *)
(* One action is one run of a JavaScript callback together with the        *)
(* promise continuations it triggers: JavaScript runs those to completion  *)
(* before the next timer, I/O or signal callback.                          *)
(***************************************************************************)
EXTENDS Integers, Sequences, FiniteSets, TLC

\* ------------------------------------------------------------------ bounds
\* How many status=1 responses the remote agents may give in one run.
MaxRemoteErrors == 3
\* Planning alone is explored over wider inputs: file sizes, tunnel counts
\* and thresholds up to these.
PlanMaxSize == 5
PlanMaxTunnels == 4
PlanMaxThreshold == 2

\* The inputs of a scheduled transfer: two files of these sizes (bytes), a
\* pool of one or two agents, the `parallelThreshold` option scaled down to
\* the sizes.
SchedSizes == {0, 1, 2}
TunnelCounts == {1, 2}
Thresholds == {2}
LocalPaths == {1, 2}
Agents == 1..PlanMaxTunnels
\* const maxRetries = 3
maxRetries == 3

Min(a, b) == IF a < b THEN a ELSE b
\* Math.ceil(a / b) for a >= 0, b > 0
Ceil(a, b) == (a + b - 1) \div b

\* ---------------------------------------------------------------- planning
\* One job of the plan.  type "range" carries the interval, type "file" does
\* not (rangeStart = rangeEnd = -1, chunkIndex = totalChunks = 0).
RangeJob(f, lp, start, end, idx) ==
    [type |-> "range", file |-> f, localPath |-> lp, rangeStart |-> start,
     rangeEnd |-> end, chunkIndex |-> idx, totalChunks |-> 0]

WholeJob(f, lp) ==
    [type |-> "file", file |-> f, localPath |-> lp, rangeStart |-> -1,
     rangeEnd |-> -1, chunkIndex |-> 0, totalChunks |-> 0]

ChunkSize(size, tc) == Ceil(size, tc)

ChunkStart(i, chunkSize) == i * chunkSize

ChunkEnd(i, chunkSize, size) == Min((i + 1) * chunkSize - 1, size - 1)

\* The guard of the planning loop: a chunk is kept when it is not empty.
KeepChunk(start, end) == start <= end

\* for (let i = 0; i < tunnelCount; i++) { ... jobs.push(...) ; actualChunkCount++ }
RECURSIVE RangeLoop(_, _, _, _, _, _)
RangeLoop(f, lp, size, tc, i, count) ==
    IF i >= tc THEN <<>>
    ELSE LET start == ChunkStart(i, ChunkSize(size, tc))
             end == ChunkEnd(i, ChunkSize(size, tc), size)
         IN IF KeepChunk(start, end)
            THEN <<RangeJob(f, lp, start, end, count)>>
                     \o RangeLoop(f, lp, size, tc, i + 1, count + 1)
            ELSE RangeLoop(f, lp, size, tc, i + 1, count)

\* for (const job of jobs) if (job.type === "range" && job.localPath === localPath)
\*     job.totalChunks = actualChunkCount
SetTotalChunks(js, lp, n) ==
    [k \in 1..Len(js) |->
        IF js[k].type = "range" /\ js[k].localPath = lp
        THEN [js[k] EXCEPT !.totalChunks = n]
        ELSE js[k]]

IsChunked_AboveThreshold(size, tc, threshold) == size > threshold /\ tc > 1

\* The decision between a chunked plan and one whole-file job.
IsChunked(size, tc, threshold) == size >= threshold /\ tc > 1

\* The planning loop of downloadFiles over this.files, from file k on.
\* fl[k] = [size, localPath, skip]; skip = the local target already exists
\* with the remote size.
RECURSIVE PlanFrom(_, _, _, _, _)
PlanFrom(fl, k, tc, threshold, js) ==
    IF k > Len(fl) THEN js
    ELSE IF fl[k].skip THEN PlanFrom(fl, k + 1, tc, threshold, js)
    ELSE IF IsChunked(fl[k].size, tc, threshold)
    THEN LET new == RangeLoop(k, fl[k].localPath, fl[k].size, tc, 0, 0)
         IN PlanFrom(fl, k + 1, tc, threshold,
                     SetTotalChunks(js \o new, fl[k].localPath, Len(new)))
    ELSE PlanFrom(fl, k + 1, tc, threshold, js \o <<WholeJob(k, fl[k].localPath)>>)

PlanJobs(fl, tc, threshold) == PlanFrom(fl, 1, tc, threshold, <<>>)

\* ------------------------------------------------------------------- state
VARIABLES
    files,            \* this.files: <<[size, localPath, skip]>>
    tunnelCount,      \* this.tunnelCount = number of agents of the pool
    parallelThreshold,\* this.parallelThreshold
    pc,               \* position of download(): "connecting", "connected",
                      \* "listed", "planned", "running", "failed"
    jobs,             \* the planned jobs; a job is named by its index
    pendingJobs,      \* queue of job indices
    activeJobs,       \* agent id -> job index, 0 = no entry
    phase,            \* agent id -> where executeJob is suspended
    completedChunks,  \* localPath -> set of chunkIndex
    jobRetries,       \* job index -> retries counted
    failedJobs,       \* permanently failed jobs
    result,           \* allDone: "pending", "done", "aborted", "rejected"
    rejectMsg,        \* the rejection: [kind, job], kind "none" while unset
    ready, busy, unhealthy, \* the agents' flags
    poolClosed,       \* AgentPool.close() has emptied this.agents
    aborted,          \* this.aborted
    activeTempFiles,  \* this.activeTempFiles, as the set of their localPaths
    returnedTemps,    \* what abort() handed to its caller, not yet unlinked
    tempExists,       \* localPath -> <localPath>.sshget.tmp exists
    finalBy,          \* localPath -> file whose job renamed the temp into it, 0 = never
    completedJobs,    \* history: jobs for which onJobComplete has run
    inFlight,         \* history: agent id -> executeJob calls in progress on it
    failLog,          \* what onJobFailed logged in the last step, agent 0 = nothing
    hadJobError,      \* history: jobs that failed with a job-level error
    badFile,          \* the remote file whose reads may be answered status=1
    remoteErrors,     \* history: status=1 responses given so far
    emitted,          \* the events emitted by the last step
    abortReturned,    \* what abort() returned in the last step, if it ran
    bytesReceived,    \* this.bytesReceived
    jobBytes,         \* history: sum of chunkBytes over the jobs' file:progress events
    received,         \* agent id -> bytes of the current response body consumed
    startedPaths,     \* history: localPaths for which file:start was emitted
    alive,            \* agent id -> its ssh process runs (the channel is open)
    startup,          \* agent id -> the promise of its startAgent call: "none",
                      \* "pending", "resolved", "retry" (rejected, worth a retry),
                      \* "rejected"
    pingTimer,        \* agent id -> the 300 ms timer of startAgent is due
    pingPending,      \* agent id -> the read of the startup ping is pending
    pinged,           \* history: agents whose startup ping returned status = 0
    attempts,         \* agent id -> startAgent calls made for it
    order,            \* this.agents, as the sequence of the agents' ids
    run,              \* 1 in the first download(), 2 in a repetition of it
    errorText,        \* the message of the status=1 responses for badFile
    errorListener,    \* a listener for `error` is registered on the SSHGet
    renameLeft,       \* the renames the local file system will still refuse
    catchState,       \* the catch block of download(): "none", "cleanup" (it
                      \* awaits cleanup()), "cleaned" (cleanup() returned, err
                      \* is rethrown), "threw" (emit threw, no cleanup)
    \* One call of readRangeStreaming, byte by byte.  The bytes the agent
    \* writes are numbered 1, 2, ...; agent.readBuffer holds the bytes
    \* taken + 1 .. arrived.
    status,           \* status of the response header: 0 data, 1 error
    dataLen,          \* data_len of the response header
    following,        \* bytes the agent writes after the response
    arrived,          \* bytes appended to agent.readBuffer so far
    taken,            \* bytes removed from the front of agent.readBuffer
    codecPc,          \* "idle", "header", "body", "done"
    remaining,        \* the local `remaining` of readRangeStreaming
    sunk,             \* the bytes handed to onData, in order
    \* The enumeration of download(): wildcard expansion, then the listing
    \* of every expanded path, then the targets of the files.
    remotePaths,      \* the source paths, each a sequence of components
    remoteKind,       \* what the remote holds under each name
    dirCount,         \* the number of files under a remote directory
    destination,      \* [path, slash]: the destination and whether it was
                      \* written with a trailing '/'
    destIsDirectory,  \* the destination exists locally as a directory
    enumPc,           \* "idle", "expand", "classify", "listIsDir",
                      \* "statCheck", "listFiles", "listed", "planned", "threw"
    expandedPaths,
    enumIdx,          \* the source being expanded, then the path being listed
    isDir,            \* pathInfo.isDirectory of the path being listed
    enumFiles,        \* this.files as the listing builds it
    hasDirectory,
    isWildcard,
    isDirectory,
    enumError,        \* what download() threw: "none", "NoFilesMatch",
                      \* "NoFilesFound", "stderr" (Remote command failed: ...)
    cmdFailed,        \* the operation whose remote command failed in the
                      \* last step, or "none"
    localPaths,       \* getLocalPath of every file
    \* The remote agent serving one request after the other.
    agentPc,          \* "idle" (reading a request), "serving"
    pathExists,       \* os.path.getsize(path) does not raise
    fileSize,         \* file_size: what os.path.getsize returned
    off,              \* the offset of the request
    ln,               \* the length of the request
    opens,            \* open(path, 'rb') does not raise
    sizeNow,          \* the size of the file when it is read
    msgLen,           \* the bytes of str(e), were an exception raised
    written,          \* what the agent wrote for the request, in order
    \* AgentPool.close() and the processes of the agents.
    poolAgents,       \* this.agents: the ids of the agent objects
    procState,        \* of each agent's process: "running" or "exited"
    killed,           \* process.killed of each agent
    signals,             \* what close() did to each process, in order
    closePc,          \* "idle", "grace" (the 500 ms timer runs), "closed"
    \* The jobs of one file, byte by byte: what the agents answer and what
    \* the downloader writes where.
    listedSize,       \* file.size, as the listing found it
    remoteNow,        \* the size of the remote file while it is read
    planned,          \* the jobs of the file
    writers,          \* the number of agents
    waiting,          \* pendingJobs
    writerJob,        \* activeJobs: the job of each agent, or 0
    writerPhase,      \* of each agent: "idle", "header", "body"
    position,         \* `position` of the attempt of each agent
    bytesWritten,     \* `bytesWritten` of the attempt of each agent
    respLeft,         \* `remaining` of the response each agent streams
    unread,           \* the bytes of abandoned responses in each channel
    sick,             \* agent.unhealthy
    disk,             \* <<offset, job>>: the job wrote that offset
    recorded,         \* of each completed job: the bytes its attempt wrote
    writeRetries,     \* jobRetries: the failures counted against each job
    misread           \* a header was read from bytes of an earlier response

vars == <<files, tunnelCount, parallelThreshold, pc, jobs, pendingJobs, activeJobs,
          phase, completedChunks, jobRetries, failedJobs, result, rejectMsg, ready,
          busy, unhealthy, poolClosed, aborted, activeTempFiles, returnedTemps,
          tempExists, finalBy, completedJobs, inFlight, failLog, hadJobError,
          badFile, remoteErrors, emitted, abortReturned, bytesReceived, jobBytes,
          received, startedPaths, alive, startup, pingTimer, pingPending, pinged,
          attempts, order, run, errorText, errorListener, catchState,
          renameLeft,
          status, dataLen, following, arrived, taken, codecPc, remaining, sunk,
          remotePaths, remoteKind, dirCount, destination, destIsDirectory,
          enumPc, expandedPaths, enumIdx, isDir, enumFiles, hasDirectory,
          isWildcard, isDirectory, enumError, cmdFailed, localPaths,
          agentPc, pathExists, fileSize, off, ln, opens, sizeNow, msgLen,
          written, poolAgents, procState, killed, signals, closePc,
          listedSize, remoteNow, planned, writers, waiting, writerJob,
          writerPhase, position, bytesWritten, respLeft, unread, sick, disk,
          recorded, writeRetries, misread>>

\* The variables of the transfer, and those of the parts that are followed
\* on their own.
transfer ==
    <<files, tunnelCount, parallelThreshold, pc, jobs, pendingJobs, activeJobs,
      phase, completedChunks, jobRetries, failedJobs, result, rejectMsg, ready,
      busy, unhealthy, poolClosed, aborted, activeTempFiles, returnedTemps,
      tempExists, finalBy, completedJobs, inFlight, failLog, hadJobError,
      badFile, remoteErrors, emitted, abortReturned, bytesReceived, jobBytes,
      received, startedPaths, alive, startup, pingTimer, pingPending, pinged,
      attempts, order, run, errorText, errorListener, catchState, renameLeft>>

codecVars == <<status, dataLen, following, arrived, taken, codecPc, remaining, sunk>>

enumVars ==
    <<remotePaths, remoteKind, dirCount, destination, destIsDirectory, enumPc,
      expandedPaths, enumIdx, isDir, enumFiles, hasDirectory, isWildcard,
      isDirectory, enumError, cmdFailed, localPaths>>

agentVars ==
    <<agentPc, pathExists, fileSize, off, ln, opens, sizeNow, msgLen, written>>

closeVars == <<poolAgents, procState, killed, signals, closePc>>

writeVars ==
    <<listedSize, remoteNow, planned, writers, waiting, writerJob, writerPhase,
      position, bytesWritten, respLeft, unread, sick, disk, recorded, writeRetries,
      misread>>

units == <<codecVars, enumVars, agentVars, closeVars, writeVars>>

\* What connect() builds; the scheduler changes none of it.
connectState == <<startup, pingTimer, pingPending, pinged, attempts, order>>

\* The byte counters; no decision of the scheduler reads them.
accounting == <<bytesReceived, jobBytes, received>>

\* What download() fixed before downloadFiles is entered.
inputs == <<files, tunnelCount, parallelThreshold, badFile, run, errorText,
            errorListener>>

Pool == 1..tunnelCount
JobIds == 1..Len(jobs)

Event(t, f, j) ==
    [type |-> t, file |-> f, job |-> j, chunkBytes |-> 0, bytesReceived |-> 0]

\* this.emit("file:progress", {file, chunkBytes, bytesReceived, totalBytes});
\* file 0 is "(skipped)".
ProgressEvent(f, j, n, total) ==
    [type |-> "file:progress", file |-> f, job |-> j, chunkBytes |-> n,
     bytesReceived |-> total]

NoAbortCall == [called |-> FALSE, paths |-> {}]

NoFailure ==
    [agent |-> 0, job |-> 0, isAgentError |-> FALSE, healthyCount |-> 0, err |-> {}]

\* The part of the state the synchronous scheduler code reads and writes.
Cur ==
    [pending |-> pendingJobs, active |-> activeJobs, phase |-> phase,
     retries |-> jobRetries, failed |-> failedJobs, result |-> result,
     rejectMsg |-> rejectMsg, ready |-> ready, busy |-> busy,
     unhealthy |-> unhealthy, temps |-> activeTempFiles, calls |-> inFlight,
     log |-> NoFailure, jobErrs |-> hadJobError, started |-> startedPaths,
     catch |-> catchState, renames |-> renameLeft, ev |-> {}]

Commit(after) ==
    \E s \in {after} :
        /\ pendingJobs' = s.pending
        /\ activeJobs' = s.active
        /\ phase' = s.phase
        /\ jobRetries' = s.retries
        /\ failedJobs' = s.failed
        /\ result' = s.result
        /\ rejectMsg' = s.rejectMsg
        /\ ready' = s.ready
        /\ busy' = s.busy
        /\ unhealthy' = s.unhealthy
        /\ activeTempFiles' = s.temps
        /\ inFlight' = s.calls
        /\ failLog' = s.log
        /\ hadJobError' = s.jobErrs
        /\ emitted' = s.ev
        /\ startedPaths' = s.started
        /\ catchState' = s.catch
        /\ renameLeft' = s.renames
        /\ abortReturned' = NoAbortCall

\* ------------------------------------------------------------- agent pool
Available_IgnoresBusy(s) ==
    IF poolClosed THEN {}
    ELSE {a \in Pool : s.ready[a] /\ ~s.unhealthy[a]}

Available_IgnoresUnhealthy(s) ==
    IF poolClosed THEN {}
    ELSE {a \in Pool : s.ready[a] /\ ~s.busy[a]}

\* this.agents.find((a) => a.ready && !a.busy && !a.unhealthy), 0 = null
Available(s) ==
    IF poolClosed THEN {}
    ELSE {a \in Pool : s.ready[a] /\ ~s.busy[a] /\ ~s.unhealthy[a]}

FirstOf_LowestId(S) == IF S = {} THEN 0 ELSE CHOOSE a \in S : \A b \in S : a <= b

\* Array.find over this.agents: the first agent of the array that is in S.
FirstOf(S) ==
    IF \A k \in 1..Len(order) : order[k] \notin S THEN 0
    ELSE order[CHOOSE k \in 1..Len(order) :
                   order[k] \in S /\ \A m \in 1..(k - 1) : order[m] \notin S]

acquire(s) == FirstOf(Available(s))

\* release(id): agent.busy = false, when the agent is still in this.agents
release_KeepsBusy(s, a) == s

release(s, a) == IF poolClosed THEN s ELSE [s EXCEPT !.busy[a] = FALSE]

\* markUnhealthy(id, reason)
markUnhealthy(s, a) == IF poolClosed THEN s ELSE [s EXCEPT !.unhealthy[a] = TRUE]

\* getHealthyCount()
getHealthyCount(s) ==
    IF poolClosed THEN 0
    ELSE Cardinality({a \in Pool : s.ready[a] /\ ~s.unhealthy[a]})

\* --------------------------------------------------------------- scheduler
Idle(s) == \A a \in Agents : s.active[a] = 0

\* resolveAll(v): a promise settles once; later calls change nothing.  The
\* continuation of download() runs in the same turn: it emits `complete`
\* unless the value is {aborted: true}.
resolveAll(s, v) ==
    IF s.result # "pending" THEN s
    ELSE [s EXCEPT !.result = v,
                   !.ev = IF v = "done" THEN @ \cup {Event("complete", 0, 0)} ELSE @]

Catch_EmitsWhenAborted(s, j) ==
    [s EXCEPT !.ev = @ \cup {Event("error", 0, j)},
              !.catch = IF aborted \/ errorListener THEN "cleanup" ELSE "threw"]

\* The catch block of download(): `if (!this.aborted) this.emit("error", err)`,
\* then `await this.cleanup()`.  emit("error") of an EventEmitter without a
\* listener for it throws err, and the catch block is left there.
Catch(s, j) ==
    IF aborted THEN [s EXCEPT !.catch = "cleanup"]
    ELSE [s EXCEPT !.ev = @ \cup {Event("error", 0, j)},
                   !.catch = IF errorListener THEN "cleanup" ELSE "threw"]

\* rejectAll(err): settles once; download() is in `await this.downloadFiles()`
\* and its catch block runs in the same turn.
rejectAll(s, kind, j) ==
    IF s.result # "pending" THEN s
    ELSE Catch([s EXCEPT !.result = "rejected",
                         !.rejectMsg = [kind |-> kind, job |-> j]], j)

StartJob_NoFileStart(s, a, j) ==
    [s EXCEPT !.busy[a] = TRUE,
              !.active[a] = j,
              !.phase[a] = "mkdir",
              !.calls[a] = @ + 1,
              !.temps = IF jobs[j].type = "file" THEN @ \cup {jobs[j].localPath} ELSE @]

\* The synchronous head of executeJob(agent, job), up to its first await:
\* a whole-file job tracks its temp file, both kinds then wait for ensureDir.
StartJob(s, a, j) ==
    [s EXCEPT !.busy[a] = TRUE,
              !.active[a] = j,
              !.phase[a] = "mkdir",
              !.calls[a] = @ + 1,
              !.temps = IF jobs[j].type = "file" THEN @ \cup {jobs[j].localPath} ELSE @,
              !.started = @ \cup {jobs[j].localPath},
              !.ev = @ \cup {Event("file:start", jobs[j].file, j)}]

\* while (pendingJobs.length > 0) { agent = acquire(); if (!agent) break; ... }
RECURSIVE DispatchLoop(_)
\* (the state is bound once, as a value, by the singleton set)
DispatchLoop(queue) ==
    CHOOSE r \in {IF s.pending = <<>> \/ acquire(s) = 0 THEN s
                  ELSE DispatchLoop(StartJob([s EXCEPT !.pending = Tail(@)],
                                             acquire(s), Head(s.pending)))
                  : s \in {queue}} : TRUE

SeesAbort_Never == FALSE

\* The guard at the head of processQueue.
SeesAbort == aborted

processQueue(s) ==
    IF SeesAbort THEN resolveAll(s, "aborted")
    ELSE CHOOSE r \in {IF t.pending = <<>> /\ Idle(t) THEN resolveAll(t, "done") ELSE t
                       : t \in {DispatchLoop(s)}} : TRUE

\* activeJobs.delete(agent.id); this.agentPool.release(agent.id)
Detach(s, a) ==
    release([s EXCEPT !.active[a] = 0, !.phase[a] = "idle", !.calls[a] = @ - 1], a)

onJobComplete(s, a) == processQueue(Detach(s, a))

\* An error is modelled by the marker words its message contains.
StallError == {"Agent", "stalled"}
ReadStallError == {"Agent", "read stalled", "stalled"}
ClosedError == {"Agent", "connection closed"}
RemoteError == {}
\* str(e) of the agent's OSError quotes the remote path, here a path with
\* "Agent" in it: "[Errno 13] Permission denied: '/srv/Agent/x'".
PathQuotingError == {"Agent"}
LocalError == {}

isAgentError(err) ==
    err \cap {"stalled", "read timeout", "read stalled", "connection closed", "Agent"} # {}

Requeue(s, j) == [s EXCEPT !.pending = Append(@, j)]

\* "All agents failed - last error: <err>" names no job;
\* "Download failed: <jobDesc> - <err>" names the job.
Rejection(s, j, healthyCount) ==
    IF healthyCount = 0
    THEN rejectAll(s, "AllAgentsFailed", 0)
    ELSE rejectAll(s, "DownloadFailed", j)

JobLevelFailure_OffByOne(s, j, healthyCount) ==
    LET retries == s.retries[j] + 1
        t == [s EXCEPT !.retries[j] = retries]
    IN IF retries <= maxRetries
       THEN processQueue(Requeue(t, j))
       ELSE Rejection([t EXCEPT !.failed = @ \cup {j}], j, healthyCount)

\* The job-level branch of onJobFailed; healthyCount was read before it.
JobLevelFailure(s, j, healthyCount) ==
    LET retries == s.retries[j] + 1
        t == [s EXCEPT !.retries[j] = retries]
    IN IF retries < maxRetries
       THEN processQueue(Requeue(t, j))
       ELSE Rejection([t EXCEPT !.failed = @ \cup {j}], j, healthyCount)

shouldRetryOnAgent_OnlyStalls(err, healthyCount) ==
    "stalled" \in err /\ healthyCount > 0

shouldRetryOnAgent(err, healthyCount) == isAgentError(err) /\ healthyCount > 0

onJobFailed(s, a, err) ==
    LET j == s.active[a]
        d == Detach(s, a)
        m == IF isAgentError(err) THEN markUnhealthy(d, a) ELSE d
        healthyCount == getHealthyCount(m)
        l == [m EXCEPT !.log = [agent |-> a, job |-> j,
                                isAgentError |-> isAgentError(err),
                                healthyCount |-> healthyCount, err |-> err],
                       !.jobErrs = IF isAgentError(err) THEN @ ELSE @ \cup {j}]
    IN IF shouldRetryOnAgent(err, healthyCount)
       THEN processQueue(Requeue(l, j))
       ELSE JobLevelFailure(l, j, healthyCount)

\* --------------------------------------------------------------- the steps
\* File lists of two files; the first file's target is named 1, and the
\* first file is skipped only when the second is too (a list whose first
\* file alone is skipped behaves as the list of its second file alone does).
\* skip is what the skip test of downloadFiles finds for the file, so two
\* files of one localPath are both skipped only when they have one size,
\* and one of them alone only when they have not.
FileLists(sizes) ==
    {fl \in [1..2 -> [size : sizes, localPath : LocalPaths, skip : BOOLEAN]] :
        /\ fl[1].localPath = 1
        /\ fl[1].skip => fl[2].skip
        /\ fl[1].localPath = fl[2].localPath =>
              ((fl[1].skip = fl[2].skip) <=> (fl[1].size = fl[2].size \/ ~fl[2].skip))}

\* What the constructors of SSHGet and AgentPool leave: nothing planned,
\* nothing received, no agent handed out.
InitTransfer(fileLists, tunnelCounts, thresholds) ==
    /\ files \in fileLists
    /\ tunnelCount \in tunnelCounts
    /\ parallelThreshold \in thresholds
    /\ badFile \in 1..2
    /\ run = 1
    /\ catchState = "none"
    /\ jobs = <<>>
    /\ pendingJobs = <<>>
    /\ activeJobs = [a \in Agents |-> 0]
    /\ phase = [a \in Agents |-> "idle"]
    /\ completedChunks = [lp \in LocalPaths |-> {}]
    /\ jobRetries = <<>>
    /\ failedJobs = {}
    /\ result = "pending"
    /\ rejectMsg = [kind |-> "none", job |-> 0]
    /\ busy = [a \in Agents |-> FALSE]
    /\ unhealthy = [a \in Agents |-> FALSE]
    /\ poolClosed = FALSE
    /\ aborted = FALSE
    /\ activeTempFiles = {}
    /\ returnedTemps = {}
    /\ tempExists = [lp \in LocalPaths |-> FALSE]
    /\ finalBy = [lp \in LocalPaths |-> 0]
    /\ completedJobs = {}
    /\ inFlight = [a \in Agents |-> 0]
    /\ failLog = NoFailure
    /\ hadJobError = {}
    /\ remoteErrors = 0
    /\ startedPaths = {}
    /\ abortReturned = NoAbortCall
    /\ bytesReceived = 0
    /\ jobBytes = 0
    /\ received = [a \in Agents |-> 0]

\* The state when downloadFiles is entered: the pool is connected, every
\* agent has passed its ping, the files are listed, nothing is planned.
\* download() has not been called.
EnumStart ==
    /\ enumPc = "idle"
    /\ expandedPaths = <<>>
    /\ enumIdx = 0
    /\ isDir = FALSE
    /\ enumFiles = <<>>
    /\ hasDirectory = FALSE
    /\ isWildcard = FALSE
    /\ isDirectory = FALSE
    /\ enumError = "none"
    /\ cmdFailed = "none"
    /\ localPaths = <<>>

\* No call of readRangeStreaming is followed.
CodecIdle ==
    /\ status = 0
    /\ dataLen = 0
    /\ following = 0
    /\ arrived = 0
    /\ taken = 0
    /\ codecPc = "idle"
    /\ remaining = 0
    /\ sunk = <<>>

\* No enumeration is followed.
EnumIdle ==
    /\ remotePaths = <<>>
    /\ remoteKind = <<>>
    /\ dirCount = 0
    /\ destination = [path |-> <<>>, slash |-> FALSE]
    /\ destIsDirectory = FALSE
    /\ EnumStart

\* The agent waits for its first request.
AgentIdle ==
    /\ agentPc = "idle"
    /\ pathExists = TRUE
    /\ fileSize = 0
    /\ off = 0
    /\ ln = 0
    /\ opens = TRUE
    /\ sizeNow = 0
    /\ msgLen = 0
    /\ written = <<>>

\* No pool whose close() is followed.
CloseIdle ==
    /\ poolAgents = {}
    /\ procState = <<>>
    /\ killed = <<>>
    /\ signals = <<>>
    /\ closePc = "idle"

\* No file whose bytes are followed.
WriteIdle ==
    /\ listedSize = 0
    /\ remoteNow = 0
    /\ planned = <<>>
    /\ writers = 0
    /\ waiting = <<>>
    /\ writerJob = <<>>
    /\ writerPhase = <<>>
    /\ position = <<>>
    /\ bytesWritten = <<>>
    /\ respLeft = <<>>
    /\ unread = <<>>
    /\ sick = <<>>
    /\ disk = {}
    /\ recorded = <<>>
    /\ writeRetries = <<>>
    /\ misread = FALSE

UnitsIdle == CodecIdle /\ EnumIdle /\ AgentIdle /\ CloseIdle /\ WriteIdle

InitScheduler(fileLists, tunnelCounts, thresholds) ==
    /\ InitTransfer(fileLists, tunnelCounts, thresholds)
    /\ UnitsIdle
    /\ renameLeft = 0

\* connect() has resolved, the files are listed and `start` was emitted.
Connected ==
    /\ pc = "listed"
    /\ ready = [a \in Agents |-> a <= tunnelCount]
    /\ alive = [a \in Agents |-> a <= tunnelCount]
    /\ startup = [a \in Agents |-> IF a <= tunnelCount THEN "resolved" ELSE "none"]
    /\ pingTimer = [a \in Agents |-> FALSE]
    /\ pingPending = [a \in Agents |-> FALSE]
    /\ pinged = 1..tunnelCount
    /\ attempts = [a \in Agents |-> IF a <= tunnelCount THEN 1 ELSE 0]
    /\ order = [k \in 1..tunnelCount |-> k]
    /\ emitted = {Event("start", 0, 0)}

InitFrom(fileLists, tunnelCounts, thresholds, texts, listeners) ==
    /\ InitScheduler(fileLists, tunnelCounts, thresholds)
    /\ errorText \in texts
    /\ errorListener \in listeners
    /\ Connected

\* The remote errors name no path that reads like an agent failure, and
\* the progress display listens for `error`.
InitWith(fileLists, tunnelCounts, thresholds) ==
    InitFrom(fileLists, tunnelCounts, thresholds, {RemoteError}, {TRUE})

Init == InitWith(FileLists(SchedSizes), TunnelCounts, Thresholds)

RECURSIVE SumSizes(_, _)
SumSizes(fl, k) == IF k > Len(fl) THEN 0 ELSE fl[k].size + SumSizes(fl, k + 1)

\* this.totalBytes = this.files.reduce((sum, f) => sum + f.size, 0)
totalBytes == SumSizes(files, 1)

RECURSIVE SumSkipped(_, _)
SumSkipped(fl, k) ==
    IF k > Len(fl) THEN 0
    ELSE (IF fl[k].skip THEN fl[k].size ELSE 0) + SumSkipped(fl, k + 1)

\* skippedBytes += file.size, for every file the skip test passes
skippedBytes == SumSkipped(files, 1)

RangePaths(js) == {js[k].localPath : k \in {i \in 1..Len(js) : js[i].type = "range"}}

\* downloadFiles, first part: skip test, planning, preallocation.
Plan ==
    /\ pc = "listed"
    /\ pc' = "planned"
    /\ jobs' = PlanJobs(files, tunnelCount, parallelThreshold)
    /\ jobRetries' = [j \in 1..Len(jobs') |-> 0]
    /\ activeTempFiles' = activeTempFiles \cup RangePaths(jobs')
    /\ tempExists' = [lp \in LocalPaths |-> tempExists[lp] \/ lp \in RangePaths(jobs')]
    /\ bytesReceived' = IF skippedBytes > 0 THEN skippedBytes ELSE bytesReceived
    /\ emitted' = {Event("file:skip", k, 0) : k \in {i \in 1..Len(files) : files[i].skip}}
                     \cup (IF skippedBytes > 0
                           THEN {ProgressEvent(0, 0, skippedBytes, skippedBytes)}
                           ELSE {})
    /\ abortReturned' = NoAbortCall
    /\ failLog' = NoFailure
    /\ UNCHANGED <<units, inputs, connectState, alive, catchState, renameLeft, startedPaths, jobBytes, received, pendingJobs, activeJobs, phase,
                   completedChunks, failedJobs, result, rejectMsg, ready, busy,
                   unhealthy, poolClosed, aborted, returnedTemps, finalBy,
                   completedJobs, inFlight, hadJobError, remoteErrors>>

\* downloadFiles, second part: nothing to do when every file was skipped,
\* else pendingJobs = [...jobs] and the first processQueue().
Start ==
    /\ pc = "planned"
    /\ pc' = "running"
    /\ Commit(IF Len(jobs) = 0
              THEN resolveAll(Cur, "done")
              ELSE processQueue([Cur EXCEPT !.pending = [k \in 1..Len(jobs) |-> k]]))
    /\ UNCHANGED <<units, inputs, connectState, alive, accounting, jobs, completedChunks,
                   poolClosed, aborted, returnedTemps, tempExists, finalBy,
                   completedJobs, remoteErrors>>

JobLength(j) ==
    IF jobs[j].type = "range" THEN jobs[j].rangeEnd - jobs[j].rangeStart + 1
    ELSE files[jobs[j].file].size

\* ensureDir() returns; the temp file is opened ("w" creates it for a whole
\* file, "r+" needs it to exist for a range) and the request is written.
MkdirDone(a) ==
    /\ phase[a] = "mkdir"
    /\ LET j == activeJobs[a]
           lp == jobs[j].localPath
       IN IF jobs[j].type = "file"
          THEN /\ tempExists' = [tempExists EXCEPT ![lp] = TRUE]
               /\ Commit([Cur EXCEPT !.phase[a] = "header"])
          ELSE /\ UNCHANGED tempExists
               /\ IF tempExists[lp]
                  THEN Commit([Cur EXCEPT !.phase[a] = "header"])
                  ELSE Commit(onJobFailed(Cur, a, LocalError))
    /\ UNCHANGED <<units, inputs, connectState, alive, accounting, pc, jobs, completedChunks,
                   poolClosed, aborted, returnedTemps, finalBy, completedJobs,
                   remoteErrors>>

\* renameSync(tempPath, localPath) needs the temp file to exist.
CanRename(lp) == tempExists[lp]

\* Whether the file system refuses the rename for a reason of its own (the
\* target is a directory, the volume is read-only, ...).
RenameRefusals == IF renameLeft > 0 THEN BOOLEAN ELSE {FALSE}

\* The chunk set that completes a file: chunks.size === job.totalChunks
AllChunksIn(chunks, j) == Cardinality(chunks) = jobs[j].totalChunks

\* readRangeStreaming has returned: the tail of executeJob's try block.
JobSucceeds(a, s) ==
    LET j == activeJobs[a]
        lp == jobs[j].localPath
        chunks == completedChunks[lp] \cup {jobs[j].chunkIndex}
        finalizes == jobs[j].type = "file" \/ AllChunksIn(chunks, j)
        done == [s EXCEPT !.temps = @ \ {lp},
                          !.ev = @ \cup {Event("file:complete", jobs[j].file, j)}]
    IN /\ completedChunks' =
              IF jobs[j].type = "range"
              THEN [completedChunks EXCEPT ![lp] = chunks]
              ELSE completedChunks
       /\ IF ~finalizes
          THEN /\ Commit(onJobComplete(s, a))
               /\ completedJobs' = completedJobs \cup {j}
               /\ UNCHANGED <<tempExists, finalBy>>
          ELSE \E refused \in RenameRefusals :
               IF CanRename(lp) /\ ~refused
               THEN /\ tempExists' = [tempExists EXCEPT ![lp] = FALSE]
                    /\ finalBy' = [finalBy EXCEPT ![lp] = jobs[j].file]
                    /\ Commit(onJobComplete(done, a))
                    /\ completedJobs' = completedJobs \cup {j}
               ELSE /\ Commit(onJobFailed(
                              [s EXCEPT !.renames = IF refused THEN @ - 1 ELSE @],
                              a, LocalError))
                    /\ UNCHANGED <<tempExists, finalBy, completedJobs>>

\* The 9-byte header arrives with status = 0.
RecvHeaderOk(a) ==
    /\ phase[a] = "header"
    /\ ready[a]
    /\ IF JobLength(activeJobs[a]) = 0
       THEN JobSucceeds(a, Cur)
       ELSE /\ Commit([Cur EXCEPT !.phase[a] = "body"])
            /\ UNCHANGED <<completedChunks, tempExists, finalBy, completedJobs>>
    /\ UNCHANGED <<units, inputs, connectState, alive, accounting, pc, jobs, poolClosed, aborted,
                   returnedTemps, remoteErrors>>

Progress_CarriesDelta(a, n) ==
    [Cur EXCEPT !.ev = {ProgressEvent(jobs[activeJobs[a]].file, activeJobs[a], n, n)}]

\* onProgress(chunkBytes) of executeJob: a chunk of n bytes was written.
Progress(a, n) ==
    [Cur EXCEPT !.ev = {ProgressEvent(jobs[activeJobs[a]].file, activeJobs[a], n,
                                      bytesReceived + n)}]

\* One byte of the body arrives, more are to come: onData writes it.
RecvPart(a) ==
    /\ phase[a] = "body"
    /\ ready[a]
    /\ JobLength(activeJobs[a]) - received[a] >= 2
    /\ received' = [received EXCEPT ![a] = @ + 1]
    /\ bytesReceived' = bytesReceived + 1
    /\ jobBytes' = jobBytes + 1
    /\ Commit(Progress(a, 1))
    /\ UNCHANGED <<units, inputs, connectState, alive, pc, jobs, completedChunks, poolClosed, aborted,
                   returnedTemps, tempExists, finalBy, completedJobs, remoteErrors>>

\* The rest of the body arrives and is written.
RecvBody(a) ==
    /\ phase[a] = "body"
    /\ ready[a]
    /\ LET n == JobLength(activeJobs[a]) - received[a]
       IN /\ bytesReceived' = bytesReceived + n
          /\ jobBytes' = jobBytes + n
          /\ JobSucceeds(a, Progress(a, n))
    /\ received' = [received EXCEPT ![a] = 0]
    /\ UNCHANGED <<units, inputs, connectState, alive, pc, jobs, poolClosed, aborted,
                   returnedTemps, remoteErrors>>

\* The header arrives with status = 1: readRangeStreaming throws the message.
RecvHeaderErr(a) ==
    /\ phase[a] = "header"
    /\ ready[a]
    /\ remoteErrors < MaxRemoteErrors
    /\ jobs[activeJobs[a]].file = badFile
    /\ remoteErrors' = remoteErrors + 1
    /\ Commit(onJobFailed(Cur, a, errorText))
    /\ UNCHANGED <<units, inputs, connectState, alive, accounting, pc, jobs, completedChunks,
                   poolClosed, aborted, returnedTemps, tempExists, finalBy,
                   completedJobs>>

\* The stall timer of the pending read fires.
Stall(a) ==
    /\ phase[a] \in {"header", "body"}
    /\ Commit(onJobFailed(Cur, a, IF phase[a] = "header" THEN ReadStallError ELSE StallError))
    /\ received' = [received EXCEPT ![a] = 0]
    /\ UNCHANGED <<units, inputs, connectState, alive, bytesReceived, jobBytes, pc, jobs, completedChunks,
                   poolClosed, aborted, returnedTemps, tempExists, finalBy,
                   completedJobs, remoteErrors>>

\* resolve() / reject() of a startAgent promise: a settled promise stays as
\* it is.  "retry" is a rejection whose message startAgentWithRetry retries.
StartupAfter(a, out) == [startup EXCEPT ![a] = IF @ = "pending" THEN out ELSE @]

PcAfter_FirstResolved(a, out) ==
    IF pc # "connecting" \/ startup[a] # "pending" THEN pc
    ELSE IF out = "rejected" THEN "failed"
    ELSE IF out = "resolved" THEN "connected"
    ELSE pc

\* What connect() and download() make of it in the same turn: Promise.all
\* of the batch resolves with the last agent and rejects with the first
\* rejection that is not retried.
PcAfter(a, out) ==
    IF pc # "connecting" \/ startup[a] # "pending" THEN pc
    ELSE IF out = "rejected" THEN "failed"
    ELSE IF out = "resolved" /\ \A b \in Pool \ {a} : startup[b] = "resolved"
         THEN "connected"
    ELSE pc

\* tunnel:ready after connect() resolved; the catch block after it rejected.
AfterConnect(s, a, out) ==
    IF PcAfter(a, out) = pc THEN s
    ELSE IF PcAfter(a, out) = "connected"
    THEN [s EXCEPT !.ev = @ \cup {Event("tunnel:ready", 0, 0)}]
    ELSE Catch(s, 0)

\* proc.on("close"): an agent that was not ready rejects its startAgent
\* promise ("exited with code ...: <stderr>", worth a retry when the stderr
\* says so); a ready one gets ready = false and its pending read rejected.
ChannelClose(a) ==
    /\ a \in Pool
    /\ alive[a]
    /\ alive' = [alive EXCEPT ![a] = FALSE]
    /\ IF ~ready[a]
       THEN /\ \E out \in {"retry", "rejected"} :
                 /\ startup' = StartupAfter(a, out)
                 /\ pc' = PcAfter(a, out)
                 /\ Commit(AfterConnect(Cur, a, out))
            /\ UNCHANGED received
       ELSE /\ LET s == [Cur EXCEPT !.ready[a] = FALSE,
                                    !.ev = {Event("tunnel:status", 0, 0)}]
               IN IF phase[a] \in {"header", "body"}
                  THEN Commit(onJobFailed(s, a, ClosedError))
                  ELSE Commit(s)
            /\ received' = [received EXCEPT ![a] = 0]
            /\ UNCHANGED <<startup, pc>>
    /\ UNCHANGED <<units, inputs, pingTimer, pingPending, pinged, attempts, order,
                   bytesReceived, jobBytes, jobs, completedChunks,
                   poolClosed, aborted, returnedTemps, tempExists, finalBy,
                   completedJobs, remoteErrors>>

Abort_KeepsTemps ==
    /\ aborted' = TRUE
    /\ abortReturned' = [called |-> TRUE, paths |-> activeTempFiles]
    /\ returnedTemps' = returnedTemps \cup activeTempFiles
    /\ emitted' = {}
    /\ failLog' = NoFailure
    /\ UNCHANGED <<units, inputs, connectState, alive, catchState, renameLeft, startedPaths, accounting, pc, jobs, pendingJobs, activeTempFiles,
                   activeJobs, phase, completedChunks, jobRetries, failedJobs, result,
                   rejectMsg, ready, busy, unhealthy, poolClosed, tempExists, finalBy,
                   completedJobs, inFlight, hadJobError, remoteErrors>>

\* SSHGet.abort()
Abort ==
    /\ aborted' = TRUE
    /\ abortReturned' = [called |-> TRUE, paths |-> activeTempFiles]
    /\ returnedTemps' = returnedTemps \cup activeTempFiles
    /\ activeTempFiles' = {}
    /\ emitted' = {}
    /\ failLog' = NoFailure
    /\ UNCHANGED <<units, inputs, connectState, alive, catchState, renameLeft, startedPaths, accounting, pc, jobs, pendingJobs,
                   activeJobs, phase, completedChunks, jobRetries, failedJobs, result,
                   rejectMsg, ready, busy, unhealthy, poolClosed, tempExists, finalBy,
                   completedJobs, inFlight, hadJobError, remoteErrors>>

\* The caller of abort() unlinks the temp files it was handed.
CallerUnlink ==
    /\ returnedTemps # {}
    /\ tempExists' = [lp \in LocalPaths |-> tempExists[lp] /\ lp \notin returnedTemps]
    /\ returnedTemps' = {}
    /\ emitted' = {}
    /\ abortReturned' = NoAbortCall
    /\ failLog' = NoFailure
    /\ UNCHANGED <<units, inputs, connectState, alive, catchState, renameLeft, startedPaths, accounting, pc, jobs, pendingJobs,
                   activeJobs, phase, completedChunks, jobRetries, failedJobs, result,
                   rejectMsg, ready, busy, unhealthy, poolClosed, aborted,
                   activeTempFiles, finalBy, completedJobs, inFlight, hadJobError, remoteErrors>>

\* download() after the scheduler settled: agentPool.close() empties the pool;
\* after a rejection cleanup() also unlinks every known temp file.
PoolClose ==
    /\ (result = "done" /\ catchState = "none") \/ catchState = "cleanup"
    /\ ~poolClosed
    /\ poolClosed' = TRUE
    /\ IF catchState = "cleanup"
       THEN /\ tempExists' = [lp \in LocalPaths |-> FALSE]
            /\ activeTempFiles' = {}
            /\ catchState' = "cleaned"
       ELSE UNCHANGED <<tempExists, activeTempFiles, catchState>>
    /\ UNCHANGED renameLeft
    /\ emitted' = {}
    /\ abortReturned' = NoAbortCall
    /\ failLog' = NoFailure
    /\ UNCHANGED <<units, inputs, connectState, alive, startedPaths, accounting, pc, jobs, pendingJobs,
                   activeJobs, phase, completedChunks, jobRetries, failedJobs, result,
                   rejectMsg, ready, busy, unhealthy, aborted, returnedTemps, finalBy,
                   completedJobs, inFlight, hadJobError, remoteErrors>>

\* ------------------------------------------------------------- connect()
\* startAgentWithRetry gives an agent this many starts.
startRetries == 3

\* The state reads of the connect steps change nothing of the scheduler.
ConnectStep(a, out) ==
    /\ startup' = StartupAfter(a, out)
    /\ pc' = PcAfter(a, out)
    /\ UNCHANGED <<units, inputs, accounting, alive, attempts, order, jobs,
                   completedChunks, poolClosed, aborted, returnedTemps,
                   tempExists, finalBy, completedJobs, remoteErrors>>

\* The 300 ms timer of startAgent: the ping request is written and the read
\* of its 9-byte header begins, whether or not the process still runs.
PingTimer(a) ==
    /\ a \in Pool
    /\ pingTimer[a]
    /\ pingTimer' = [pingTimer EXCEPT ![a] = FALSE]
    /\ pingPending' = [pingPending EXCEPT ![a] = ~ready[a]]
    /\ Commit(Cur)
    /\ UNCHANGED <<pinged, startup, pc>>
    /\ UNCHANGED <<units, inputs, accounting, alive, attempts, order, jobs,
                   completedChunks, poolClosed, aborted, returnedTemps,
                   tempExists, finalBy, completedJobs, remoteErrors>>

\* What the timer callback does once pingAgent has returned.
AfterPing(s, a) ==
    [s EXCEPT !.ready[a] = TRUE, !.ev = @ \cup {Event("tunnel:status", 0, 0)}]

\* The header of the ping's response says status = 0: agent.ready = true,
\* tunnel:status, resolve().
PingOk(a) ==
    /\ a \in Pool
    /\ pingPending[a]
    /\ alive[a]
    /\ pingPending' = [pingPending EXCEPT ![a] = FALSE]
    /\ pinged' = pinged \cup {a}
    /\ Commit(AfterPing(AfterConnect(Cur, a, "resolved"), a))
    /\ ConnectStep(a, "resolved")
    /\ UNCHANGED pingTimer

\* The header says status # 0 ("Agent ping failed: ..."), or no header
\* comes within 10 s ("Agent i read stalled"): reject("Agent i failed
\* health check: ...").
PingFails(a) ==
    /\ a \in Pool
    /\ pingPending[a]
    /\ pingPending' = [pingPending EXCEPT ![a] = FALSE]
    /\ Commit(AfterConnect(Cur, a, "rejected"))
    /\ ConnectStep(a, "rejected")
    /\ UNCHANGED <<pingTimer, pinged>>

Restart_AnyFailure(a) ==
    /\ a \in Pool
    /\ startup[a] \in {"retry", "rejected"}
    /\ attempts[a] < startRetries
    /\ attempts' = [attempts EXCEPT ![a] = @ + 1]
    /\ startup' = [startup EXCEPT ![a] = "pending"]
    /\ alive' = [alive EXCEPT ![a] = TRUE]
    /\ pingTimer' = [pingTimer EXCEPT ![a] = TRUE]
    /\ pingPending' = [pingPending EXCEPT ![a] = FALSE]
    /\ pinged' = pinged \ {a}
    /\ order' = Append(SelectSeq(order, LAMBDA b : b # a), a)
    /\ Commit(Cur)
    /\ UNCHANGED <<units, inputs, accounting, pc, jobs, completedChunks, poolClosed,
                   aborted, returnedTemps, tempExists, finalBy, completedJobs,
                   remoteErrors>>

\* startAgentWithRetry after its delay: startAgent(index) again.  The new
\* agent object takes the place of the old one at the end of this.agents;
\* the callbacks of the old object touch only the old object.
Restart(a) ==
    /\ a \in Pool
    /\ startup[a] = "retry"
    /\ attempts[a] < startRetries
    /\ attempts' = [attempts EXCEPT ![a] = @ + 1]
    /\ startup' = [startup EXCEPT ![a] = "pending"]
    /\ alive' = [alive EXCEPT ![a] = TRUE]
    /\ pingTimer' = [pingTimer EXCEPT ![a] = TRUE]
    /\ pingPending' = [pingPending EXCEPT ![a] = FALSE]
    /\ pinged' = pinged \ {a}
    /\ order' = Append(SelectSeq(order, LAMBDA b : b # a), a)
    /\ Commit(Cur)
    /\ UNCHANGED <<units, inputs, accounting, pc, jobs, completedChunks, poolClosed,
                   aborted, returnedTemps, tempExists, finalBy, completedJobs,
                   remoteErrors>>

\* startAgentWithRetry after the delay of its last attempt: throw lastError.
GiveUp(a) ==
    /\ a \in Pool
    /\ startup[a] = "retry"
    /\ attempts[a] = startRetries
    /\ startup' = [startup EXCEPT ![a] = "rejected"]
    /\ pc' = IF pc = "connecting" THEN "failed" ELSE pc
    /\ Commit(IF pc = "connecting" THEN Catch(Cur, 0) ELSE Cur)
    /\ UNCHANGED <<units, inputs, accounting, alive, attempts, order, pingTimer,
                   pingPending, pinged, jobs, completedChunks, poolClosed,
                   aborted, returnedTemps, tempExists, finalBy, completedJobs,
                   remoteErrors>>

\* download() between connect() and downloadFiles(): the remote files are
\* listed over connections of their own, then `start` is emitted.
ListDone ==
    /\ pc = "connected"
    /\ pc' = "listed"
    /\ Commit([Cur EXCEPT !.ev = {Event("start", 0, 0)}])
    /\ UNCHANGED <<units, inputs, connectState, alive, accounting, jobs,
                   completedChunks, poolClosed, aborted, returnedTemps,
                   tempExists, finalBy, completedJobs, remoteErrors>>

\* ---------------------------------------------------------- a second run
\* The size of the local file at lp once a download() is over: that of the
\* file whose job renamed its temp file into lp, else that of the file the
\* skip test found there; -1 when neither is there.
LocalSizeOf(lp) ==
    IF finalBy[lp] # 0 THEN files[finalBy[lp]].size
    ELSE IF \E k \in 1..Len(files) : files[k].localPath = lp /\ files[k].skip
    THEN files[CHOOSE k \in 1..Len(files) :
                   files[k].localPath = lp /\ files[k].skip].size
    ELSE -1

\* existsSync(localPath) && statSync(localPath).size === file.size
SkipTest(k) == LocalSizeOf(files[k].localPath) = files[k].size

\* download() is called again, on a new SSHGet, with the same sources and
\* the same destination, after the first one resolved: the remote listing
\* is the same, the local files are what the first run left.
Rerun ==
    /\ run = 1
    /\ result = "done"
    /\ poolClosed
    /\ run' = 2
    /\ files' = [k \in 1..Len(files) |-> [files[k] EXCEPT !.skip = SkipTest(k)]]
    /\ pc' = "listed"
    /\ jobs' = <<>>
    /\ completedChunks' = [lp \in LocalPaths |-> {}]
    /\ poolClosed' = FALSE
    /\ alive' = [a \in Agents |-> a <= tunnelCount]
    /\ pinged' = 1..tunnelCount
    /\ completedJobs' = {}
    /\ remoteErrors' = 0
    /\ bytesReceived' = 0
    /\ jobBytes' = 0
    /\ received' = [a \in Agents |-> 0]
    /\ returnedTemps' = {}
    /\ Commit([pending |-> <<>>, active |-> [a \in Agents |-> 0],
               phase |-> [a \in Agents |-> "idle"], retries |-> <<>>,
               failed |-> {}, result |-> "pending",
               rejectMsg |-> [kind |-> "none", job |-> 0],
               ready |-> [a \in Agents |-> a <= tunnelCount],
               busy |-> [a \in Agents |-> FALSE],
               unhealthy |-> [a \in Agents |-> FALSE], temps |-> {},
               calls |-> [a \in Agents |-> 0], log |-> NoFailure, jobErrs |-> {},
               started |-> {}, catch |-> "none", renames |-> renameLeft, ev |-> {Event("start", 0, 0)}])
    /\ UNCHANGED <<units, tunnelCount, parallelThreshold, badFile, errorText, errorListener,
                   aborted, tempExists,
                   finalBy, startup, pingTimer, pingPending, attempts, order>>

\* The listing fails: a remote command of getRemotePathInfo or
\* listRemoteFiles exits with an error, or no file is found.
ListFails ==
    /\ pc = "connected"
    /\ pc' = "failed"
    /\ Commit(Catch(Cur, 0))
    /\ UNCHANGED <<units, inputs, connectState, alive, accounting, jobs,
                   completedChunks, poolClosed, aborted, returnedTemps,
                   tempExists, finalBy, completedJobs, remoteErrors>>

Next ==
    \/ Plan
    \/ Start
    \/ \E a \in Agents : MkdirDone(a)
    \/ \E a \in Agents : RecvHeaderOk(a)
    \/ \E a \in Agents : RecvBody(a)
    \/ \E a \in Agents : RecvHeaderErr(a)
    \/ \E a \in Agents : Stall(a)
    \/ \E a \in Agents : ChannelClose(a)
    \/ Abort
    \/ CallerUnlink
    \/ PoolClose

Spec == Init /\ [][Next]_vars

\* Planning alone, over wider inputs.
InitPlan ==
    InitWith(FileLists(0..PlanMaxSize), 1..PlanMaxTunnels, 1..PlanMaxThreshold)

NextPlan == Plan

SpecPlan == InitPlan /\ [][NextPlan]_vars

\* A transfer nobody aborts and whose remote files can all be read, under
\* the scheduling the event loop gives: a callback that is due runs, and a
\* pending read ends, by its data or by its stall timer or by the close of
\* the channel.
NextLive ==
    \/ Plan
    \/ Start
    \/ \E a \in Agents : MkdirDone(a)
    \/ \E a \in Agents : RecvHeaderOk(a)
    \/ \E a \in Agents : RecvBody(a)
    \/ \E a \in Agents : Stall(a)
    \/ \E a \in Agents : ChannelClose(a)
    \/ PoolClose

ReadEnds(a) ==
    \/ RecvHeaderOk(a)
    \/ RecvBody(a)
    \/ Stall(a)
    \/ phase[a] \in {"header", "body"} /\ ChannelClose(a)

Fairness ==
    /\ WF_vars(Plan)
    /\ WF_vars(Start)
    /\ WF_vars(PoolClose)
    /\ \A a \in Agents : WF_vars(MkdirDone(a)) /\ WF_vars(ReadEnds(a))

SpecLive == Init /\ [][NextLive]_vars /\ Fairness

\* The transfer of NextLive with the body of a response arriving in
\* pieces: the byte accounting is observed here.
NextBytes ==
    \/ NextLive
    \/ \E a \in Agents : RecvPart(a)

\* With a threshold of 3 a file of 2 bytes is one whole-file job although
\* two agents are there.
BytesThresholds == {2, 3}

InitBytes == InitWith(FileLists(SchedSizes), TunnelCounts, BytesThresholds)

SpecBytes == InitBytes /\ [][NextBytes]_vars

\* The transfer of NextLive with remote files that cannot be read, over
\* the texts a status=1 response can carry.
ErrorTexts == {RemoteError, PathQuotingError}

InitRemote ==
    InitFrom(FileLists(SchedSizes), TunnelCounts, Thresholds, ErrorTexts, {TRUE})

NextRemote ==
    \/ NextLive
    \/ \E a \in Agents : RecvHeaderErr(a)

SpecRemote == InitRemote /\ [][NextRemote]_vars

\* The transfer of NextLive, and a second run after it.
NextRerun ==
    \/ NextLive
    \/ Rerun

SpecRerun == Init /\ [][NextRerun]_vars

\* download() from connect() on: the agents have been spawned, none has
\* answered yet.
ConnectSizes == {1, 2}

InitConnectWith(sizes, listeners) ==
    /\ InitScheduler({fl \in FileLists(sizes) : ~fl[2].skip},
                     TunnelCounts, Thresholds)
    /\ errorText = RemoteError
    /\ errorListener \in listeners
    /\ pc = "connecting"
    /\ ready = [a \in Agents |-> FALSE]
    /\ alive = [a \in Agents |-> a <= tunnelCount]
    /\ startup = [a \in Agents |-> IF a <= tunnelCount THEN "pending" ELSE "none"]
    /\ pingTimer = [a \in Agents |-> a <= tunnelCount]
    /\ pingPending = [a \in Agents |-> FALSE]
    /\ pinged = {}
    /\ attempts = [a \in Agents |-> IF a <= tunnelCount THEN 1 ELSE 0]
    /\ order = [k \in 1..tunnelCount |-> k]
    /\ emitted = {}

InitConnect == InitConnectWith(ConnectSizes, {TRUE})

NextConnect ==
    \/ \E a \in Agents : PingTimer(a)
    \/ \E a \in Agents : PingOk(a)
    \/ \E a \in Agents : PingFails(a)
    \/ \E a \in Agents : Restart(a)
    \/ \E a \in Agents : GiveUp(a)
    \/ ListDone
    \/ NextLive

SpecConnect == InitConnect /\ [][NextConnect]_vars

\* download() from connect() on, with everything that makes it fail, with
\* and without a listener for `error`.
FailSizes == {1}

InitFail == InitConnectWith(FailSizes, BOOLEAN)

NextFail ==
    \/ NextConnect
    \/ ListFails
    \/ \E a \in Agents : RecvHeaderErr(a)

SpecFail == InitFail /\ [][NextFail]_vars

\* The scheduled transfer of Next, with abort(), with and without a
\* listener for `error`.
InitCatch ==
    InitFrom({fl \in FileLists(FailSizes) : ~fl[2].skip}, TunnelCounts, Thresholds,
             {RemoteError}, BOOLEAN)

SpecCatch == InitCatch /\ [][Next]_vars

\* ------------------------------------------------------------------ claims
RangeJobsOf(k) == {j \in JobIds : jobs[j].type = "range" /\ jobs[j].file = k}

PlannedChunked(k) ==
    /\ ~files[k].skip
    /\ files[k].size >= parallelThreshold
    /\ tunnelCount > 1

\* The intervals of the Range jobs of file k are non-empty, lie in
\* [0, size-1], and every byte of [0, size-1] is in exactly one of them.
PartitionsFile(k) ==
    /\ RangeJobsOf(k) # {}
    /\ \A j \in RangeJobsOf(k) :
          /\ 0 <= jobs[j].rangeStart
          /\ jobs[j].rangeStart <= jobs[j].rangeEnd
          /\ jobs[j].rangeEnd <= files[k].size - 1
    /\ \A b \in 0..(files[k].size - 1) :
          Cardinality({j \in RangeJobsOf(k) :
                          jobs[j].rangeStart <= b /\ b <= jobs[j].rangeEnd}) = 1

\* No planned chunk was kept empty and none that is not empty was dropped:
\* the jobs of file k are exactly the non-empty chunks of the tunnelCount
\* computed ones.
KeepsNonEmptyChunks(k) ==
    LET cs == ChunkSize(files[k].size, tunnelCount)
    IN Cardinality(RangeJobsOf(k)) =
           Cardinality({i \in 0..(tunnelCount - 1) : i * cs <= files[k].size - 1})

TotalChunksExact(k) ==
    \A j \in RangeJobsOf(k) : jobs[j].totalChunks = Cardinality(RangeJobsOf(k))

SharesLocalPath(k) ==
    \E m \in 1..Len(files) :
        m # k /\ ~files[m].skip /\ files[m].localPath = files[k].localPath

\* C1: every file planned as chunked gets Range jobs whose intervals are
\* non-empty, disjoint, contiguous and cover exactly [0, size-1]; empty
\* chunks are dropped; and every job's totalChunks is the number of jobs
\* retained for that file.
C1_RangePlanExact ==
    pc = "planned" =>
        \A k \in 1..Len(files) :
            PlannedChunked(k) =>
                PartitionsFile(k) /\ KeepsNonEmptyChunks(k) /\ TotalChunksExact(k)

\* What does hold of the plan: the intervals always partition the file, and
\* totalChunks is exact for a file that shares its local target with no other.
C1_PartitionHolds ==
    pc = "planned" =>
        \A k \in 1..Len(files) :
            PlannedChunked(k) =>
                /\ PartitionsFile(k)
                /\ KeepsNonEmptyChunks(k)
                /\ (~SharesLocalPath(k) => TotalChunksExact(k))

FileCompleteEvents == {e \in emitted : e.type = "file:complete"}

\* C2: file:complete for a chunked file is emitted only when every Range job
\* of that file has completed successfully.
C2_CompleteAfterAllChunks ==
    \A e \in FileCompleteEvents :
        jobs[e.job].type = "range" => RangeJobsOf(e.file) \subseteq completedJobs

\* What does hold: the same for every chunked file whose localPath no other
\* file of the list maps to.
C2_UnsharedCompleteAfterAllChunks ==
    \A e \in FileCompleteEvents :
        (jobs[e.job].type = "range" /\ ~SharesLocalPath(e.file)) =>
            RangeJobsOf(e.file) \subseteq completedJobs

\* A chunked file with an unshared localPath completes after one of its
\* chunks failed and was retried.
C2_UnsharedWitness ==
    \E e \in FileCompleteEvents :
        /\ jobs[e.job].type = "range"
        /\ ~SharesLocalPath(e.file)
        /\ \E j \in RangeJobsOf(e.file) : jobRetries[j] > 0

JobsOf(k) == {j \in JobIds : jobs[j].file = k}

\* C3: a final path exists through this transfer only as a renamed temp
\* file, and only when every job of the file it was renamed for has
\* finished successfully (it never holds a partial download).
C3_FinalPathComplete ==
    \A lp \in LocalPaths :
        finalBy[lp] # 0 => JobsOf(finalBy[lp]) \subseteq completedJobs

\* What does hold: the same for every file whose localPath no other file of
\* the list maps to.
C3_UnsharedFinalPathComplete ==
    \A lp \in LocalPaths :
        (finalBy[lp] # 0 /\ ~SharesLocalPath(finalBy[lp])) =>
            JobsOf(finalBy[lp]) \subseteq completedJobs

\* C4: no agent has two executeJob calls (requests) in progress: an agent
\* that acquire() handed out is not handed out again before its release.
C4_OneRequestPerAgent ==
    \A a \in Agents : inFlight[a] <= 1 /\ (inFlight[a] = 1 => busy[a])

\* Both agents are executing, one of them a job that failed before, after
\* another job completed: agents were released and handed out again.
C4_Witness ==
    /\ \A a \in 1..2 : inFlight[a] = 1
    /\ \E a \in 1..2 : jobRetries[activeJobs[a]] > 0
    /\ completedJobs # {}

ActiveAgents == {a \in Agents : activeJobs[a] # 0}

\* C5: the number of in-flight jobs never exceeds getHealthyCount().
C5_InFlightWithinHealthy == Cardinality(ActiveAgents) <= getHealthyCount(Cur)

\* C5 as amended: in-flight jobs run only on agents of the pool that are not
\* marked unhealthy, so their number never exceeds the number of agents not
\* marked unhealthy; it exceeds getHealthyCount() by at most the number of
\* agents whose channel closed while their job was running.
C5_InFlightWithinNotUnhealthy ==
    /\ \A a \in ActiveAgents : a \in Pool /\ ~unhealthy[a]
    /\ Cardinality(ActiveAgents) <= Cardinality({a \in Pool : ~unhealthy[a]})
    /\ ~poolClosed =>
          Cardinality(ActiveAgents) <=
              getHealthyCount(Cur) + Cardinality({a \in ActiveAgents : ~ready[a]})

\* A job is running on an agent whose channel has closed while another
\* agent is quarantined: more jobs in flight than healthy agents.
C5_Witness ==
    /\ \E a \in ActiveAgents : ~ready[a]
    /\ \E a \in Pool : unhealthy[a]
    /\ Cardinality(ActiveAgents) > getHealthyCount(Cur)

Last(q) == q[Len(q)]

\* The job is at the tail of the queue, or processQueue has already passed
\* the whole queue, this job last, to agents among `to`.
RequeuedAtTail(j, to) ==
    \/ pendingJobs' # <<>> /\ Last(pendingJobs') = j
    \/ pendingJobs' = <<>> /\ \E b \in to : activeJobs'[b] = j

AgentLevelRetry ==
    failLog'.agent # 0 /\ failLog'.isAgentError /\ failLog'.healthyCount > 0

\* C6: an agent-level failure that leaves a healthy agent marks the failing
\* agent unhealthy, puts the job at the tail of the queue and leaves every
\* retry counter as it was; a job whose failures were all agent-level never
\* reaches the retry limit.
C6_AgentFailureKeepsRetries ==
    /\ [][AgentLevelRetry =>
             /\ unhealthy'[failLog'.agent]
             /\ jobRetries' = jobRetries
             /\ RequeuedAtTail(failLog'.job, Agents \ {failLog'.agent})]_vars
    /\ [](\A j \in JobIds : jobRetries[j] >= maxRetries => j \in hadJobError)

\* A job that failed on an agent-level error runs again on the other agent
\* with no retry counted.
C6_Witness ==
    \E a \in Agents :
        /\ unhealthy[a] /\ failLog.agent = a /\ failLog.isAgentError
        /\ failLog.healthyCount > 0
        /\ \E b \in Agents \ {a} : activeJobs[b] = failLog.job
        /\ jobRetries[failLog.job] = 0

JobLevelStep == failLog'.agent # 0 /\ ~failLog'.isAgentError

NeverRunsAgain(j) ==
    /\ \A k \in 1..Len(pendingJobs) : pendingJobs[k] # j
    /\ \A a \in Agents : activeJobs[a] # j

RetriesBounded ==
    \A j \in JobIds :
        /\ jobRetries[j] <= maxRetries
        /\ jobRetries[j] = maxRetries => NeverRunsAgain(j)

\* C7: a job-level failure increments the job's retry counter; below 3 the
\* job goes to the tail of the queue; at 3 the transfer is rejected with the
\* message that names the job; no counter exceeds 3 and a job at 3 never
\* runs again.
C7_ThirdFailureRejects ==
    /\ [][JobLevelStep =>
             LET j == failLog'.job
             IN /\ jobRetries'[j] = jobRetries[j] + 1
                /\ jobRetries'[j] < maxRetries => RequeuedAtTail(j, Agents)
                /\ jobRetries'[j] = maxRetries =>
                      /\ result' = "rejected"
                      /\ rejectMsg' = [kind |-> "DownloadFailed", job |-> j]]_vars
    /\ []RetriesBounded

\* C7 as amended: as C7, but at 3 the job is recorded as failed and the
\* transfer is rejected only if it is not settled yet (a transfer already
\* resolved as aborted, or already rejected, stays as it is), and the
\* message names the job only while a healthy agent remains: with none left
\* it is "All agents failed - last error: <error>".
C7_ThirdFailureRejectsUnlessSettled ==
    /\ [][JobLevelStep =>
             LET j == failLog'.job
             IN /\ jobRetries'[j] = jobRetries[j] + 1
                /\ jobRetries'[j] < maxRetries => RequeuedAtTail(j, Agents)
                /\ jobRetries'[j] = maxRetries =>
                      /\ j \in failedJobs'
                      /\ result = "pending" =>
                            /\ result' = "rejected"
                            /\ rejectMsg' =
                                  IF failLog'.healthyCount = 0
                                  THEN [kind |-> "AllAgentsFailed", job |-> 0]
                                  ELSE [kind |-> "DownloadFailed", job |-> j]
                      /\ result # "pending" =>
                            result' = result /\ rejectMsg' = rejectMsg]_vars
    /\ []RetriesBounded

\* A Range job has just failed for the 3rd time on a job-level error and
\* the transfer is rejected with the message naming it.
C7_Witness ==
    /\ failLog.agent # 0 /\ ~failLog.isAgentError
    /\ jobs[failLog.job].type = "range"
    /\ jobRetries[failLog.job] = maxRetries
    /\ result = "rejected"
    /\ rejectMsg = [kind |-> "DownloadFailed", job |-> failLog.job]

NoHealthyAgentLeft ==
    /\ failLog.agent # 0 /\ failLog.isAgentError /\ failLog.healthyCount = 0
    /\ result = "pending"

\* C8: when an agent-level failure leaves no healthy agent and the
\* transfer is unsettled, the transfer ends rejected with "All agents failed".
C8_ExhaustionRejects ==
    NoHealthyAgentLeft ~> (result = "rejected" /\ rejectMsg.kind = "AllAgentsFailed")

\* What does hold: the failure is counted as a job-level one.
C8_FallsThroughToJobLevel ==
    [][(failLog'.agent # 0 /\ failLog'.isAgentError /\ failLog'.healthyCount = 0) =>
          jobRetries'[failLog'.job] = jobRetries[failLog'.job] + 1]_vars

\* The transfer is stuck: unsettled, a job queued, nothing running and no
\* agent left to hand out.
C8_Stuck ==
    /\ result = "pending" /\ pc = "running"
    /\ pendingJobs # <<>>
    /\ Idle(Cur)
    /\ getHealthyCount(Cur) = 0

CompleteEmitted == Event("complete", 0, 0) \in emitted

StaysHealthy(b) == [](ready[b] /\ ~unhealthy[b])

\* C9: if an agent fails while executing a job and another agent stays
\* ready and healthy, every planned job eventually completes and `complete`
\* is emitted.
C9_SiblingFinishesTransfer ==
    ((\E b \in Agents : StaysHealthy(b)) /\ <>(\E a \in Agents : unhealthy[a]))
        => <>(CompleteEmitted /\ completedJobs = JobIds)

\* What does hold: the same when no two files of the list map to one
\* localPath.
C9_UnsharedSiblingFinishesTransfer ==
    ((\E b \in Agents : StaysHealthy(b)) /\ <>(\E a \in Agents : unhealthy[a])
        /\ \A k \in 1..2 : ~SharesLocalPath(k))
        => <>(CompleteEmitted /\ completedJobs = JobIds)

\* The transfer completes with a job that failed on a quarantined agent
\* and was completed by its sibling.
C9_UnsharedWitness ==
    /\ CompleteEmitted /\ completedJobs = JobIds
    /\ \A k \in 1..2 : ~SharesLocalPath(k)
    /\ \E a \in Agents : unhealthy[a]
    /\ \E b \in Agents : ready[b] /\ ~unhealthy[b]

\* C10: once abort() has been called no step emits file:start, hands a job
\* to an agent or takes a job off the queue, whatever completes or fails.
C10_NoDispatchAfterAbort ==
    [][aborted =>
          /\ \A e \in emitted' : e.type # "file:start"
          /\ \A a \in Agents : activeJobs'[a] \in {0, activeJobs[a]}
          /\ \A a \in Agents : inFlight'[a] <= inFlight[a]
          /\ Len(pendingJobs') >= Len(pendingJobs)]_vars

\* After abort() an in-flight job has failed and another finished or failed
\* with a job still queued and an agent free to take it.
C10_Witness ==
    /\ aborted /\ result = "aborted"
    /\ failLog.agent # 0
    /\ pendingJobs # <<>>
    /\ Available(Cur) # {}

\* C11: once abort() has been called no step emits `complete`, whatever
\* the point of download() the call came at, every file skipped included.
C11_NoCompleteAfterAbort ==
    [][aborted => ~CompleteEmitted']_vars

\* What does hold: the same for a transfer that planned at least one job.
C11_NoCompleteAfterAbortWithJobs ==
    [][(aborted /\ (pc = "planned" => Len(jobs) > 0)) => ~CompleteEmitted']_vars

\* The last job finishes after abort() and the transfer resolves as aborted.
C11_WithJobsWitness ==
    /\ aborted /\ result = "aborted"
    /\ completedJobs = JobIds /\ JobIds # {}
    /\ ~CompleteEmitted

\* C12: once abort() has been called the transfer is never rejected: a
\* failure of an in-flight job after the abort, its 3rd job-level failure
\* included, is swallowed.
C12_NoRejectionAfterAbort ==
    [][aborted => (result' = "rejected" => result = "rejected")]_vars

\* What does hold: a failure after abort() that is not the job's last
\* allowed one resolves the unsettled transfer as aborted, and no `error`
\* event follows an abort.
C12_EarlierFailuresSwallowed ==
    [][(aborted /\ failLog'.agent # 0) =>
          /\ \A e \in emitted' : e.type # "error"
          /\ (result = "pending" /\ failLog'.job \notin failedJobs') =>
                result' = "aborted"]_vars

\* A job failed after abort() and the transfer resolved as aborted.
C12_SwallowedWitness ==
    /\ aborted /\ failLog.agent # 0 /\ ~failLog.isAgentError
    /\ result = "aborted" /\ jobRetries[failLog.job] = 2

AbortCall == abortReturned'.called

\* C13: abort() sets aborted, returns exactly the paths activeTempFiles
\* held at the call and leaves it empty; a second call right after the
\* first returns the empty list and changes nothing else.
C13_AbortReturnsAndClears ==
    [][AbortCall =>
          /\ aborted'
          /\ abortReturned'.paths = activeTempFiles
          /\ activeTempFiles' = {}
          /\ abortReturned.called =>
                /\ abortReturned'.paths = {}
                /\ UNCHANGED <<units, inputs, connectState, alive, catchState, renameLeft, accounting, startedPaths, pc, jobs,
                               pendingJobs, activeJobs, phase,
                               completedChunks, jobRetries, failedJobs, result,
                               rejectMsg, ready, busy, unhealthy, poolClosed, aborted,
                               activeTempFiles, returnedTemps, tempExists, finalBy,
                               completedJobs, inFlight, failLog, hadJobError,
                               remoteErrors, emitted>>]_vars

\* abort() was called twice in a row while jobs were running: the first
\* call handed out temp paths, the second returned none.
C13_Witness ==
    /\ abortReturned.called /\ abortReturned.paths = {}
    /\ returnedTemps # {}
    /\ ActiveAgents # {}

ProgressEvents(ev) == {e \in ev : e.type = "file:progress"}

\* C14: bytesReceived never decreases, and every file:progress event
\* carries a bytesReceived that is not below the value before it.
C14_BytesReceivedMonotonic ==
    [][/\ bytesReceived' >= bytesReceived
       /\ \A e \in ProgressEvents(emitted') :
             bytesReceived <= e.bytesReceived /\ e.bytesReceived = bytesReceived']_vars

\* Progress is reported after a file was skipped and a job failed part-way
\* on an agent now quarantined.
C14_Witness ==
    /\ skippedBytes > 0
    /\ \E a \in Agents : unhealthy[a]
    /\ bytesReceived > totalBytes
    /\ \E e \in ProgressEvents(emitted) : e.job # 0

\* C15: when `complete` is emitted, the chunkBytes of the jobs' progress
\* events and the skipped bytes add up to totalBytes.
C15_ProgressSumsToTotal ==
    CompleteEmitted => jobBytes + skippedBytes = totalBytes

\* What does hold: the sum is never short of totalBytes, and it is exact
\* when no job failed.
C15_ExactWithoutFailures ==
    CompleteEmitted =>
        /\ jobBytes + skippedBytes >= totalBytes
        /\ ((\A a \in Agents : ~unhealthy[a]) /\ (\A j \in JobIds : jobRetries[j] = 0))
              => jobBytes + skippedBytes = totalBytes

\* A transfer with a skipped file completes with no failure.
C15_ExactWitness ==
    /\ CompleteEmitted /\ skippedBytes > 0 /\ jobBytes > 0
    /\ \A a \in Agents : ~unhealthy[a]

\* C16: `start` is emitted before any file:start, and a file:progress
\* reporting bytes of a localPath is emitted only after a file:start for
\* that localPath.
C16_StartBeforeProgress ==
    /\ Event("start", 0, 0) \in emitted
    /\ [][/\ \A e \in emitted' : e.type # "start"
          /\ \A e \in ProgressEvents(emitted') :
                e.job # 0 => jobs[e.job].localPath \in startedPaths]_vars

\* A job that failed on one agent reports progress on another.
C16_Witness ==
    \E e \in ProgressEvents(emitted) :
        /\ e.job # 0
        /\ \E a \in Agents : unhealthy[a] /\ failLog.agent = 0
        /\ jobs[e.job].localPath = 2

\* C17: after `complete` no event other than `error` is emitted.
C17_CompleteIsLast ==
    [][result = "done" => \A e \in emitted' : e.type = "error"]_vars

\* What does hold: after `complete` nothing but tunnel:status is emitted.
C17_OnlyTunnelStatusAfterComplete ==
    [][result = "done" => \A e \in emitted' : e.type = "tunnel:status"]_vars

\* The pool has been closed after `complete` and a channel's close is
\* reported.
C17_StatusAfterCompleteWitness ==
    /\ result = "done" /\ poolClosed
    /\ Event("tunnel:status", 0, 0) \in emitted

PositionOf(a) == CHOOSE k \in 1..Len(order) : order[k] = a

Eligible(a) ==
    /\ ~poolClosed
    /\ \E k \in 1..Len(order) : order[k] = a
    /\ ready[a] /\ ~busy[a] /\ ~unhealthy[a]

AcquireAnswersFirst ==
    LET r == acquire(Cur)
    IN IF \E a \in Agents : Eligible(a)
       THEN /\ r \in Agents
            /\ Eligible(r)
            /\ \A b \in Agents : Eligible(b) => PositionOf(r) <= PositionOf(b)
       ELSE r = 0

\* C18: acquire() answers at once: with the first agent of this.agents that
\* is ready, not busy and not unhealthy, or with none when there is no such
\* agent; an agent that holds a job is busy, an agent marked unhealthy stays
\* marked and holds no job.
C18_AcquireFirstEligible ==
    [][/\ AcquireAnswersFirst'
       /\ \A a \in Agents :
             /\ activeJobs'[a] # 0 => busy'[a] /\ ~unhealthy'[a]
             /\ unhealthy[a] => unhealthy'[a]]_vars

\* A job runs on the second agent of the pool while the first one, ready
\* and not busy, is marked unhealthy; and the pool is not in the order of
\* the agents' ids.
C18_Witness ==
    /\ Len(order) = 2
    /\ order[1] > order[2]
    /\ unhealthy[order[1]] /\ ready[order[1]] /\ ~busy[order[1]]
    /\ activeJobs[order[2]] # 0
    /\ acquire(Cur) = 0

ConnectResolved == pc \notin {"connecting", "failed"}

\* C19: ready turns true only in the step in which the pending startup
\* ping of the agent is answered with status = 0; connect() has resolved,
\* or an agent is busy or holds a job, only when every agent of the pool
\* has passed its ping.
C19_ReadyAfterPing ==
    [][/\ \A a \in Agents :
             ~ready[a] /\ ready'[a] => pingPending[a] /\ alive[a] /\ a \in pinged'
       /\ (ConnectResolved' \/ \E a \in Agents : busy'[a] \/ activeJobs'[a] # 0)
             => pinged' = Pool]_vars

\* A job runs on an agent that passed its ping only at its second start.
C19_Witness ==
    /\ tunnelCount = 2
    /\ \E a \in Pool : attempts[a] = 2 /\ activeJobs[a] # 0 /\ a \in pinged
    /\ ConnectResolved

ChannelCloses(a) == alive[a] /\ ~alive'[a]

JobReadPending(a) == phase[a] \in {"header", "body"}

\* C20: when the channel of an agent closes, a read pending on the agent
\* (of a response header, of a response body, of the startup ping) fails
\* in that step with the error of the close, and ready is false afterwards.
C20_CloseFailsPendingRead ==
    [][\A a \in Agents :
          ChannelCloses(a) =>
              /\ ~ready'[a]
              /\ JobReadPending(a) => failLog'.agent = a /\ failLog'.err = ClosedError
              /\ pingPending[a] => ~pingPending'[a]]_vars

\* C20, for what the close handler does: the pending read of a ready agent
\* fails with the error of the close; the close of an agent not yet ready
\* settles its start and leaves the read of its ping pending.
C20_CloseFailsReadOfReadyAgent ==
    [][\A a \in Agents :
          ChannelCloses(a) =>
              /\ ~ready'[a]
              /\ JobReadPending(a) => failLog'.agent = a /\ failLog'.err = ClosedError
              /\ ~ready[a] => startup'[a] # "pending" /\ pingPending'[a] = pingPending[a]]_vars

\* The process of an agent is gone, its start is given up, and the read of
\* its ping is still pending.
C20_PingLeftPendingWitness ==
    \E a \in Pool : ~alive[a] /\ pingPending[a] /\ startup[a] = "rejected"

Skipped == {k \in 1..Len(files) : files[k].skip}

\* What planning does for the files the skip test passes: file:skip for
\* each, no job of any, their sizes in bytesReceived.
PlanSkips ==
    pc = "listed" /\ pc' = "planned" =>
        /\ \A k \in Skipped : Event("file:skip", k, 0) \in emitted'
        /\ \A j \in 1..Len(jobs') : jobs'[j].file \notin Skipped
        /\ bytesReceived' = SumSkipped(files, 1)

NoStartOfSkipped == \A e \in emitted' : e.type = "file:start" => e.file \notin Skipped

\* The second run skips every file and leaves the local files as they are.
RerunSkipsAll ==
    /\ run' = 2 => \A k \in 1..Len(files') : files'[k].skip
    /\ run = 2 => UNCHANGED <<finalBy, tempExists>>

\* C21: a file whose local target exists with the remote size gets
\* file:skip, no job and no file:start, and its size is counted in
\* bytesReceived; a download run again after it completed skips every file
\* and changes no local file.
C21_SkipAndRerun == [][PlanSkips /\ NoStartOfSkipped /\ RerunSkipsAll]_vars

NoSharedLocalPath ==
    \A k1, k2 \in 1..Len(files) : files[k1].localPath = files[k2].localPath => k1 = k2

\* C21, for file lists in which no two files have one localPath.
C21_UnsharedSkipAndRerun ==
    [][NoSharedLocalPath => PlanSkips /\ NoStartOfSkipped /\ RerunSkipsAll]_vars

\* C21, without the second run: what planning does for a skipped file.
C21_PlanningSkips == [][PlanSkips /\ NoStartOfSkipped]_vars

\* The second run has been planned over files the first run downloaded:
\* nothing is to do, every byte counts as received.
C21_UnsharedWitness ==
    /\ NoSharedLocalPath
    /\ run = 2
    /\ pc = "running"
    /\ result = "done"
    /\ jobs = <<>>
    /\ \A lp \in LocalPaths : finalBy[lp] # 0
    /\ bytesReceived = totalBytes /\ totalBytes > 0

WholeJobsOf(k) == {j \in JobIds : jobs[j].type = "file" /\ jobs[j].file = k}

\* C22: a file that is not skipped is planned as Range jobs exactly when
\* its size is at least parallelThreshold and tunnelCount is above 1, and
\* as one Whole job otherwise.
C22_RangeOrWhole ==
    pc = "planned" =>
        \A k \in 1..Len(files) :
            IF files[k].skip
            THEN RangeJobsOf(k) = {} /\ WholeJobsOf(k) = {}
            ELSE IF files[k].size >= parallelThreshold /\ tunnelCount > 1
            THEN RangeJobsOf(k) # {} /\ WholeJobsOf(k) = {}
            ELSE RangeJobsOf(k) = {} /\ Cardinality(WholeJobsOf(k)) = 1

\* Several agents: an empty file, one byte below the threshold, is one
\* Whole job; a file of exactly the threshold size is planned in ranges.
C22_Witness ==
    /\ pc = "planned"
    /\ tunnelCount > 1
    /\ ~files[1].skip /\ files[1].size = 0 /\ files[1].size = parallelThreshold - 1
    /\ ~files[2].skip /\ files[2].size = parallelThreshold
    /\ Cardinality(WholeJobsOf(1)) = 1
    /\ RangeJobsOf(2) # {}

JobsAt(lp) == {j \in JobIds : jobs[j].localPath = lp}

\* The jobs of lp are Range jobs of the one file k: their intervals lie in
\* [0, size-1] and every byte is in exactly one, their chunkIndex values are
\* 0..n-1 without repetition, and totalChunks is n in each.
RangePlanAt(lp, k) ==
    LET n == Cardinality(JobsAt(lp))
    IN /\ n >= 1
       /\ \A j \in JobsAt(lp) :
             /\ jobs[j].type = "range"
             /\ jobs[j].file = k
             /\ 0 <= jobs[j].rangeStart
             /\ jobs[j].rangeStart <= jobs[j].rangeEnd
             /\ jobs[j].rangeEnd <= files[k].size - 1
             /\ jobs[j].totalChunks = n
       /\ \A b \in 0..(files[k].size - 1) :
             Cardinality({j \in JobsAt(lp) :
                             jobs[j].rangeStart <= b /\ b <= jobs[j].rangeEnd}) = 1
       /\ {jobs[j].chunkIndex : j \in JobsAt(lp)} = 0..(n - 1)
       /\ \A j1, j2 \in JobsAt(lp) :
             jobs[j1].chunkIndex = jobs[j2].chunkIndex => j1 = j2

OnePlanAt(lp) ==
    \/ Cardinality(JobsAt(lp)) = 1 /\ \A j \in JobsAt(lp) : jobs[j].type = "file"
    \/ \E k \in 1..Len(files) : RangePlanAt(lp, k)

PlannedPaths == {jobs[j].localPath : j \in JobIds}

\* C23: after planning every localPath of the job list has either exactly
\* one Whole job or the Range jobs of a single file, contiguous, without
\* overlap, covering [0, size-1], with chunkIndex 0..totalChunks-1 and one
\* totalChunks; for every file list, two files of one localPath included.
C23_OnePlanPerLocalPath ==
    pc = "planned" => \A lp \in PlannedPaths : OnePlanAt(lp)

\* C23, for file lists in which no two files have one localPath.
C23_UnsharedOnePlanPerLocalPath ==
    pc = "planned" /\ NoSharedLocalPath => \A lp \in PlannedPaths : OnePlanAt(lp)

\* One target planned in three ranges, the other as a whole file.
C23_UnsharedWitness ==
    /\ pc = "planned"
    /\ NoSharedLocalPath
    /\ Cardinality(JobsAt(1)) = 3
    /\ Cardinality(JobsAt(2)) = 1

\* A status=1 response was handled in this step.
RemoteFailure == remoteErrors' = remoteErrors + 1

JobLevelHandling ==
    /\ ~failLog'.isAgentError
    /\ ~unhealthy'[failLog'.agent]
    /\ jobRetries'[failLog'.job] = jobRetries[failLog'.job] + 1

\* C24: a failure reported as a status=1 response is handled job-level,
\* whatever its text: the agent is not marked unhealthy and the retry
\* counter of the job goes up by one.
C24_RemoteErrorIsJobLevel == [][RemoteFailure => JobLevelHandling]_vars

\* C24, for the texts in which onJobFailed finds none of its marks.
C24_UnmarkedRemoteErrorIsJobLevel ==
    [][RemoteFailure /\ ~isAgentError(errorText) => JobLevelHandling]_vars

\* A status=1 response was handled job-level by an agent that stays in use.
C24_UnmarkedWitness ==
    /\ ~isAgentError(errorText)
    /\ failLog.agent # 0
    /\ ~failLog.isAgentError
    /\ failLog.err = errorText
    /\ jobRetries[failLog.job] = 2
    /\ ~unhealthy[failLog.agent]

\* download() gives control back with its failure in this step.
FailureReturned == catchState' \in {"threw", "cleaned"} /\ catchState' # catchState

CleanedUp ==
    /\ poolClosed
    /\ activeTempFiles = {}
    /\ \A lp \in LocalPaths : ~tempExists[lp]

\* C25: when download() fails, the pool is closed and every known temp
\* file is unlinked before download() gives control back, with or without
\* a listener for `error`.
C25_CleanupBeforeReturn == [][FailureReturned => CleanedUp']_vars

\* C25, for an SSHGet on which a listener for `error` is registered.
C25_CleanupBeforeReturnWithListener ==
    [][errorListener /\ FailureReturned => catchState' = "cleaned" /\ CleanedUp']_vars

\* The scheduler rejected, cleanup() has returned, and the temp file of a
\* job still in flight is gone with the others.
C25_WithListenerWitness ==
    /\ errorListener
    /\ result = "rejected"
    /\ catchState = "cleaned"
    /\ CleanedUp
    /\ \E a \in Agents : phase[a] \in {"header", "body"}

ErrorEvents(ev) == {e \in ev : e.type = "error"}

\* The catch block of download() is entered in this step.
FailureHandled == catchState = "none" /\ catchState' # "none"

\* C26: a failing download() emits `error` once, with the failure, when
\* abort() was not called; when abort() was called before the failure is
\* handled it emits none and goes on to cleanup().  No other step emits
\* `error`, and the catch block is entered once.
C26_OneErrorUnlessAborted ==
    [][/\ FailureHandled =>
             IF aborted
             THEN ErrorEvents(emitted') = {} /\ catchState' = "cleanup"
             ELSE /\ Cardinality(ErrorEvents(emitted')) = 1
                  /\ \A e \in ErrorEvents(emitted') : e.job = rejectMsg'.job
       /\ ~FailureHandled => ErrorEvents(emitted') = {}
       /\ catchState # "none" => catchState' # "none"]_vars

\* The transfer failed after abort(), and cleanup() has run.
C26_Witness ==
    /\ aborted
    /\ result = "rejected"
    /\ catchState = "cleaned"
    /\ poolClosed

\* ---------------------------------------------------------------------
\* One response read by readRangeStreaming, with the stdout data events of
\* the agent cutting its bytes anywhere.

MaxDataLen == 3
MaxFollowing == 2

HeaderLen == 9

StillFiles == [k \in 1..2 |-> [size |-> 1, localPath |-> k, skip |-> FALSE]]

\* The transfer stands still while one part is followed.
InitStill ==
    /\ InitTransfer({StillFiles}, {1}, {1})
    /\ badFile = 1
    /\ renameLeft = 0
    /\ errorText = RemoteError
    /\ errorListener = TRUE
    /\ pc = "listed"
    /\ ready = {}
    /\ alive = {}
    /\ startup = [a \in Agents |-> "idle"]
    /\ pingTimer = [a \in Agents |-> FALSE]
    /\ pingPending = [a \in Agents |-> FALSE]
    /\ pinged = [a \in Agents |-> FALSE]
    /\ attempts = [a \in Agents |-> 0]
    /\ order = <<>>
    /\ emitted = {}

\* All the bytes the agent writes: the header, the body, what follows.
StreamLen == HeaderLen + dataLen + following

BytesFrom(first, n) == [i \in 1..n |-> first + i - 1]

StreamChunk_WholeBuffer(rem, buflen) == buflen

\* chunkSize of one turn of the streaming loop.
StreamChunk(rem, buflen) == Min(rem, buflen)

\* The streaming loop, run until it has to wait for a data event or ends.
RECURSIVE StreamLoop(_, _, _, _)
StreamLoop(tk, rem, arr, sk) ==
    IF rem <= 0
    THEN [pc |-> "done", taken |-> tk, remaining |-> rem, sunk |-> sk]
    ELSE IF arr - tk = 0
    THEN [pc |-> "body", taken |-> tk, remaining |-> rem, sunk |-> sk]
    ELSE LET chunkSize == StreamChunk(rem, arr - tk)
         IN  StreamLoop(tk + chunkSize, rem - chunkSize, arr,
                        sk \o BytesFrom(tk + 1, chunkSize))

\* readExact(agent, n): its check() with the buffer tk + 1 .. arr.
ReadExactReady(tk, arr, n) == arr - tk >= n

\* What pendingRead.check() and the code awaiting it do with the buffer
\* tk + 1 .. arr.
CodecCheck(cpc, tk, rem, arr, sk) ==
    CASE cpc = "header" ->
            IF ~ReadExactReady(tk, arr, HeaderLen)
            THEN [pc |-> cpc, taken |-> tk, remaining |-> rem, sunk |-> sk]
            ELSE IF status # 0
            THEN IF ReadExactReady(tk + HeaderLen, arr, dataLen)
                 THEN [pc |-> "threw", taken |-> tk + HeaderLen + dataLen,
                       remaining |-> rem, sunk |-> sk]
                 ELSE [pc |-> "error", taken |-> tk + HeaderLen,
                       remaining |-> rem, sunk |-> sk]
            ELSE StreamLoop(tk + HeaderLen, dataLen, arr, sk)
      [] cpc = "error" ->
            IF ReadExactReady(tk, arr, dataLen)
            THEN [pc |-> "threw", taken |-> tk + dataLen,
                  remaining |-> rem, sunk |-> sk]
            ELSE [pc |-> cpc, taken |-> tk, remaining |-> rem, sunk |-> sk]
      [] cpc = "body" -> StreamLoop(tk, rem, arr, sk)
      [] OTHER -> [pc |-> cpc, taken |-> tk, remaining |-> rem, sunk |-> sk]

CodecCommit(c) ==
    /\ codecPc' = c.pc
    /\ taken' = c.taken
    /\ remaining' = c.remaining
    /\ sunk' = c.sunk

\* readRangeStreaming is called: the request is written and the header is
\* awaited.
StartRead ==
    /\ codecPc = "idle"
    /\ CodecCommit(CodecCheck("header", taken, remaining, arrived, sunk))
    /\ UNCHANGED <<transfer, writeVars, closeVars, agentVars, enumVars, status, dataLen, following, arrived>>

\* A stdout data event with the next n bytes of the agent.
StdoutData ==
    /\ codecPc # "idle"
    /\ \E n \in 1..(StreamLen - arrived) :
          /\ arrived' = arrived + n
          /\ CodecCommit(CodecCheck(codecPc, taken, remaining, arrived + n, sunk))
    /\ UNCHANGED <<transfer, writeVars, closeVars, agentVars, enumVars, status, dataLen, following>>

InitCodec ==
    /\ InitStill
    /\ EnumIdle
    /\ AgentIdle
    /\ CloseIdle
    /\ WriteIdle
    /\ status \in {0, 1}
    /\ dataLen \in 0..MaxDataLen
    /\ following \in 0..MaxFollowing
    /\ arrived = 0
    /\ taken = 0
    /\ codecPc = "idle"
    /\ remaining = 0
    /\ sunk = <<>>

NextCodec == StartRead \/ StdoutData

SpecCodec == InitCodec /\ [][NextCodec]_vars

\* C27: of a status=0 response with data_len = L the sink is handed body
\* bytes only, in order and never more than L of them; when
\* readRangeStreaming returns the sink has been handed exactly the L body
\* bytes and exactly 9 + L bytes have left the read buffer, so that every
\* further byte is still in it.
C27_ConsumesExactlyDataLen ==
    status = 0 =>
        /\ taken <= arrived
        /\ Len(sunk) <= dataLen
        /\ sunk = BytesFrom(HeaderLen + 1, Len(sunk))
        /\ codecPc = "done" =>
              /\ Len(sunk) = dataLen
              /\ taken = HeaderLen + dataLen

\* A response read to its end, with bytes written after it already in the
\* buffer.
C27_Witness ==
    /\ status = 0
    /\ codecPc = "done"
    /\ dataLen = MaxDataLen
    /\ arrived > taken
    /\ taken = HeaderLen + dataLen

\* ---------------------------------------------------------------------
\* The enumeration of download(): the remote holds the names "a" and "b"
\* under "r"; a source is one of them or the pattern "r/*".

MaxSources == 2
MaxDirFiles == 2

Names == <<"a", "b">>
FileNames == <<"x", "y", "z", "w">>

Root(n) == <<"r", n>>
Pattern == Root("*")

basename(p) == p[Len(p)]
join(d, parts) == d \o parts

hasWildcard(p) == basename(p) = "*"

SourceLists ==
    UNION {[1..n -> {Root(Names[1]), Root(Names[2]), Pattern}] : n \in 1..MaxSources}

Present(p) == remoteKind[basename(p)] # "missing"

\* What `for f in pattern; do [ -e "$f" ] && printf ...` prints.
Matches == SelectSeq([i \in 1..Len(Names) |-> Root(Names[i])], Present)

\* The path of the i-th file under a directory, relative to it.
RelPath(i) == IF i = 1 THEN <<FileNames[1]>> ELSE <<"s", FileNames[i]>>

\* What listRemoteFiles returns when its commands succeed.
listRemoteFiles(p) ==
    IF remoteKind[basename(p)] = "file"
    THEN <<[path |-> <<basename(p)>>, fullPath |-> p]>>
    ELSE [i \in 1..dirCount |-> [path |-> RelPath(i), fullPath |-> p \o RelPath(i)]]

Tag(fs, root, rootIsDir) ==
    [i \in 1..Len(fs) |-> [path |-> fs[i].path, fullPath |-> fs[i].fullPath,
                          matchedRoot |-> root, matchedRootIsDir |-> rootIsDir]]

getLocalPath_KeepsStructure(file) ==
    join(destination.path, <<basename(file.matchedRoot)>> \o file.path)

getLocalPath(file) ==
    LET hasMultipleSources == Len(remotePaths) > 1
    IN  IF Len(enumFiles) = 1 /\ ~isDirectory /\ ~isWildcard /\ ~hasMultipleSources
        THEN IF destination.slash \/ destIsDirectory
             THEN join(destination.path, <<basename(file.path)>>)
             ELSE destination.path
        ELSE IF file.matchedRootIsDir
        THEN join(destination.path, <<basename(file.matchedRoot)>> \o file.path)
        ELSE join(destination.path, <<basename(file.fullPath)>>)

\* The expansion loop from source i on, until it awaits expandWildcard or
\* ends; connect() is taken to succeed and the listing begins.
RECURSIVE ExpandFrom(_, _, _)
ExpandFrom(i, paths, wild) ==
    IF i > Len(remotePaths)
    THEN [pc |-> "classify", idx |-> 1, paths |-> paths, wild |-> wild]
    ELSE IF hasWildcard(remotePaths[i])
    THEN [pc |-> "expand", idx |-> i, paths |-> paths, wild |-> TRUE]
    ELSE ExpandFrom(i + 1, paths \o <<remotePaths[i]>>, wild)

ExpandCommit(e) ==
    /\ enumPc' = e.pc
    /\ enumIdx' = e.idx
    /\ expandedPaths' = e.paths
    /\ isWildcard' = e.wild

Throw(what) ==
    /\ enumPc' = "threw"
    /\ enumError' = what

enumInputs == <<remotePaths, remoteKind, dirCount, destination, destIsDirectory>>

StartDownload ==
    /\ enumPc = "idle"
    /\ remotePaths # <<>>
    /\ ExpandCommit(ExpandFrom(1, <<>>, FALSE))
    /\ cmdFailed' = "none"
    /\ UNCHANGED <<transfer, writeVars, closeVars, agentVars, codecVars, enumInputs, isDir, enumFiles,
                   hasDirectory, isDirectory, enumError, localPaths>>

\* expandWildcard answers; a failed command is an empty expansion.
ExpandDone ==
    /\ enumPc = "expand"
    /\ \E ok \in BOOLEAN :
          LET expanded == IF ok THEN Matches ELSE <<>>
          IN  /\ cmdFailed' = IF ok THEN "none" ELSE "expandWildcard"
              /\ IF Len(expanded) = 0
                 THEN /\ Throw("NoFilesMatch")
                      /\ UNCHANGED <<enumIdx, expandedPaths, isWildcard>>
                 ELSE /\ ExpandCommit(ExpandFrom(enumIdx + 1,
                                                 expandedPaths \o expanded, isWildcard))
                      /\ UNCHANGED enumError
    /\ UNCHANGED <<transfer, writeVars, closeVars, agentVars, codecVars, enumInputs, isDir, enumFiles,
                   hasDirectory, isDirectory, localPaths>>

\* getRemotePathInfo answers; a failed command is "not a directory".
Classify ==
    /\ enumPc = "classify"
    /\ \E ok \in BOOLEAN :
          /\ cmdFailed' = IF ok THEN "none" ELSE "getRemotePathInfo"
          /\ isDir' = (ok /\ remoteKind[basename(expandedPaths[enumIdx])] = "dir")
    /\ hasDirectory' = (hasDirectory \/ isDir')
    /\ enumPc' = "listIsDir"
    /\ UNCHANGED <<transfer, writeVars, closeVars, agentVars, codecVars, enumInputs, expandedPaths, enumIdx,
                   enumFiles, isWildcard, isDirectory, enumError, localPaths>>

\* A command of listRemoteFiles that only has to succeed: `test -d`, then
\* the stat syntax check.
ListProbe(at, next) ==
    /\ enumPc = at
    /\ \E ok \in BOOLEAN :
          /\ cmdFailed' = IF ok THEN "none" ELSE "listRemoteFiles"
          /\ IF ok THEN enumPc' = next /\ UNCHANGED enumError
                   ELSE Throw("stderr")
    /\ UNCHANGED <<transfer, writeVars, closeVars, agentVars, codecVars, enumInputs, expandedPaths, enumIdx,
                   isDir, enumFiles, hasDirectory, isWildcard, isDirectory,
                   localPaths>>

ListIsDir == ListProbe("listIsDir", "statCheck")

ListStatCheck == ListProbe("statCheck", "listFiles")

\* stat or find answers; stat of a path that does not exist fails.  After
\* the last path the listing ends.
ListFiles ==
    /\ enumPc = "listFiles"
    /\ \E ok \in BOOLEAN :
          LET p == expandedPaths[enumIdx]
              works == ok /\ Present(p)
              all == enumFiles \o Tag(listRemoteFiles(p), p, isDir)
          IN  /\ cmdFailed' = IF works THEN "none" ELSE "listRemoteFiles"
              /\ IF ~works
                 THEN /\ Throw("stderr")
                      /\ UNCHANGED <<enumFiles, enumIdx, isDirectory>>
                 ELSE /\ enumFiles' = all
                      /\ IF enumIdx < Len(expandedPaths)
                         THEN /\ enumIdx' = enumIdx + 1
                              /\ enumPc' = "classify"
                              /\ UNCHANGED <<isDirectory, enumError>>
                         ELSE /\ isDirectory' = (hasDirectory \/ Len(expandedPaths) > 1)
                              /\ UNCHANGED enumIdx
                              /\ IF Len(all) = 0
                                 THEN Throw("NoFilesFound")
                                 ELSE enumPc' = "listed" /\ UNCHANGED enumError
    /\ UNCHANGED <<transfer, writeVars, closeVars, agentVars, codecVars, enumInputs, expandedPaths, isDir,
                   hasDirectory, isWildcard, localPaths>>

\* downloadFiles asks getLocalPath for the target of every file.
PlanLocalPaths ==
    /\ enumPc = "listed"
    /\ enumPc' = "planned"
    /\ localPaths' = [i \in 1..Len(enumFiles) |-> getLocalPath(enumFiles[i])]
    /\ cmdFailed' = "none"
    /\ UNCHANGED <<transfer, writeVars, closeVars, agentVars, codecVars, enumInputs, expandedPaths, enumIdx,
                   isDir, enumFiles, hasDirectory, isWildcard, isDirectory,
                   enumError>>

InitEnum ==
    /\ InitStill
    /\ CodecIdle
    /\ AgentIdle
    /\ CloseIdle
    /\ WriteIdle
    /\ remotePaths \in SourceLists
    /\ remoteKind \in [{Names[1], Names[2]} -> {"file", "dir", "missing"}]
    /\ dirCount \in 0..MaxDirFiles
    /\ destination \in [path : {<<"out">>}, slash : BOOLEAN]
    /\ destIsDirectory \in BOOLEAN
    /\ EnumStart

NextEnum ==
    \/ StartDownload
    \/ ExpandDone
    \/ Classify
    \/ ListIsDir
    \/ ListStatCheck
    \/ ListFiles
    \/ PlanLocalPaths

SpecEnum == InitEnum /\ [][NextEnum]_vars

\* The one source named a single file: it is no pattern, it was not found
\* to be a directory, and the listing holds one file.
SingleFile ==
    /\ Len(remotePaths) = 1
    /\ ~hasWildcard(remotePaths[1])
    /\ ~hasDirectory
    /\ Len(enumFiles) = 1

\* C28: the target of a file is D/basename(relativePath) or D itself for
\* the single file of a single plain source (the former when D ends in '/'
\* or is an existing directory); otherwise it is
\* D/basename(matchedRoot)/relativePath when the matched root was recorded
\* as a directory and D/basename(fullPath) when it was recorded as a file.
C28_LocalPathMapping ==
    enumPc = "planned" =>
        \A i \in 1..Len(enumFiles) :
            LET file == enumFiles[i]
                D == destination.path
            IN  localPaths[i] =
                    IF SingleFile
                    THEN IF destination.slash \/ destIsDirectory
                         THEN D \o <<basename(file.path)>>
                         ELSE D
                    ELSE IF file.matchedRootIsDir
                    THEN D \o <<basename(file.matchedRoot)>> \o file.path
                    ELSE D \o <<basename(file.fullPath)>>

\* The single file of a single plain source went to the destination
\* itself.
C28_Witness ==
    /\ enumPc = "planned"
    /\ SingleFile
    /\ ~destination.slash
    /\ ~destIsDirectory
    /\ localPaths = <<destination.path>>

\* Two sources, a directory and a file: structure kept under the one, flat
\* for the other.
C28_MixedWitness ==
    /\ enumPc = "planned"
    /\ \E i, k \in 1..Len(enumFiles) :
          /\ enumFiles[i].matchedRootIsDir
          /\ Len(localPaths[i]) = 4
          /\ ~enumFiles[k].matchedRootIsDir
          /\ Len(localPaths[k]) = 2

\* C29: when the remote command of expandWildcard, getRemotePathInfo or
\* listRemoteFiles fails, download() throws an error that carries the
\* remote stderr.
C29_EnumerationFailureSurfaces ==
    cmdFailed # "none" => enumPc = "threw" /\ enumError = "stderr"

\* A failed command of listRemoteFiles does surface with the remote stderr.
C29_ListingFailureSurfaces ==
    cmdFailed = "listRemoteFiles" => enumPc = "threw" /\ enumError = "stderr"

\* The command of expandWildcard failed and download() reported that no
\* file matches the pattern.
C29_FailureAsNoMatch ==
    /\ cmdFailed = "expandWildcard"
    /\ enumError = "NoFilesMatch"
    /\ Len(Matches) > 0

\* The command of getRemotePathInfo failed for a directory and the listing
\* went on with the path recorded as a file.
C29_FailureAsFile ==
    /\ cmdFailed = "getRemotePathInfo"
    /\ remoteKind[basename(expandedPaths[enumIdx])] = "dir"
    /\ ~isDir
    /\ enumPc = "listIsDir"

\* ---------------------------------------------------------------------
\* The remote agent: handle_request, request after request.

MaxFileSize == 3

CHUNK == 262144
ErrCap == 1000

Max(a, b) == IF a > b THEN a ELSE b

Header(st, n) == [kind |-> "header", status |-> st, len |-> n]
Bytes(n) == [kind |-> "bytes", len |-> n]

\* What send_error writes for a message of n bytes.
send_error(n) ==
    LET err == Min(n, ErrCap)
    IN  <<Header(1, err), Bytes(err)>>

actual_len == Min(ln, Max(0, fileSize - off))

\* bytes_sent of the streaming loop, reading at pos with `remaining` left
\* from a file of `size` bytes.
RECURSIVE bytes_sent(_, _, _, _)
bytes_sent(size, pos, rem, sent) ==
    IF rem <= 0 THEN sent
    ELSE LET chunk_size == Min(CHUNK, rem)
             data == Min(chunk_size, Max(0, size - pos))
         IN  IF data = 0 THEN sent
             ELSE bytes_sent(size, pos + data, rem - data, sent + data)

\* Messages shorter than the cap of send_error, at it and beyond it.
MsgLens == {0, 40, ErrCap, ErrCap + 1}

\* handle_request reads a request frame and asks for the size of the
\* file: it writes the success header, or the error response when
\* os.path.getsize raises.
AgentRequest ==
    /\ agentPc = "idle"
    /\ off' \in 0..MaxFileSize
    /\ ln' \in 0..MaxFileSize
    /\ pathExists' \in BOOLEAN
    /\ opens' = pathExists'
    /\ IF pathExists'
       THEN /\ fileSize' \in 0..MaxFileSize
            /\ msgLen' = 0
            /\ written' = <<Header(0, actual_len')>>
            /\ agentPc' = IF actual_len' = 0 THEN "idle" ELSE "serving"
       ELSE /\ fileSize' = 0
            /\ msgLen' \in MsgLens
            /\ written' = send_error(msgLen')
            /\ agentPc' = "idle"
    /\ sizeNow' = fileSize'
    /\ UNCHANGED <<transfer, writeVars, closeVars, codecVars, enumVars>>

\* handle_request opens the file and streams the range; the file may have
\* changed its size since it was asked for, and an exception of open is
\* answered with send_error.
AgentServe ==
    /\ agentPc = "serving"
    /\ opens' \in BOOLEAN
    /\ IF opens'
       THEN /\ sizeNow' \in 0..MaxFileSize
            /\ msgLen' = 0
            /\ written' = written \o <<Bytes(bytes_sent(sizeNow', off, actual_len, 0))>>
       ELSE /\ msgLen' \in MsgLens
            /\ written' = written \o send_error(msgLen')
            /\ UNCHANGED sizeNow
    /\ agentPc' = "idle"
    /\ UNCHANGED <<transfer, writeVars, closeVars, codecVars, enumVars, pathExists, fileSize, off, ln>>

InitAgent ==
    /\ InitStill
    /\ CodecIdle
    /\ EnumIdle
    /\ AgentIdle
    /\ CloseIdle
    /\ WriteIdle

NextAgent == AgentRequest \/ AgentServe

SpecAgent == InitAgent /\ [][NextAgent]_vars

\* The request has been answered.
Answered == agentPc = "idle" /\ written # <<>>

SuccessResponse ==
    /\ written[1] = Header(0, actual_len)
    /\ IF actual_len = 0
       THEN Len(written) = 1
       ELSE written = <<Header(0, actual_len), Bytes(actual_len)>>

ErrorResponse ==
    /\ Len(written) = 2
    /\ written[1].kind = "header"
    /\ written[1].status = 1
    /\ written[1].len <= ErrCap
    /\ written[2] = Bytes(written[1].len)

\* C30: what the agent wrote for a request is one response: a status=0
\* header with data_len = min(length, max(0, file_size - offset)) and
\* exactly data_len bytes of data, or a status=1 header and a message of
\* at most 1000 bytes.
C30_OneResponsePerRequest ==
    Answered => SuccessResponse \/ ErrorResponse

\* The file can be opened and is, when read, no shorter than the range
\* announced.
Servable == opens /\ sizeNow >= off + actual_len

\* For a file that cannot be sized, or that can be opened and has kept the
\* range, the agent writes one response.
C30_OneResponseWhenServable ==
    Answered /\ (~pathExists \/ Servable) => SuccessResponse \/ ErrorResponse

\* A range of a file answered in full.
C30_ServableWitness ==
    /\ Answered
    /\ Servable
    /\ actual_len = MaxFileSize
    /\ written = <<Header(0, actual_len), Bytes(actual_len)>>

\* An error response follows a success header.
C30_ErrorAfterSuccess ==
    /\ Answered
    /\ Len(written) = 3
    /\ written[1].status = 0
    /\ written[2].status = 1

\* Fewer bytes of data than the header announced.
C30_ShortBody ==
    /\ Answered
    /\ Len(written) = 2
    /\ written[1].status = 0
    /\ written[2].len < written[1].len

\* ---------------------------------------------------------------------
\* C31: an agent is started at most 3 times, and started again only from a
\* failure that is worth a retry; a failure that is not ends its start for
\* good; after the retryable failure of the 3rd start the start is given
\* up with that error and connect() is rejected.
C31_StartAtMostThrice ==
    [][\A a \in Agents :
          /\ attempts'[a] <= 3
          /\ attempts'[a] # attempts[a] =>
                startup[a] = "retry" /\ attempts'[a] = attempts[a] + 1
          /\ startup[a] = "rejected" =>
                startup'[a] = "rejected" /\ attempts'[a] = attempts[a]
          /\ startup[a] = "retry" /\ attempts[a] = 3 /\ startup'[a] # "retry" =>
                startup'[a] = "rejected" /\ pc' = "failed"]_vars

\* The 3rd start of an agent failed, the start was given up and connect()
\* was rejected while the other agent had resolved its own.
C31_Witness ==
    /\ tunnelCount = 2
    /\ pc = "failed"
    /\ \E a, b \in Pool :
          /\ attempts[a] = 3
          /\ startup[a] = "rejected"
          /\ startup[b] = "resolved"

\* ---------------------------------------------------------------------
\* AgentPool.close() over a pool of agents whose processes run or have
\* exited.  kill() signals a process that runs and sets process.killed; for
\* a process that has exited it does neither.

MaxClosePool == 4

ClosePools == {1..n : n \in 1..MaxClosePool}

\* process.kill(sig) of agent a, on the log sn and the flags kl.
Kill(a, sig, sn, kl) ==
    IF procState[a] = "running"
    THEN [signals |-> [sn EXCEPT ![a] = Append(@, sig)],
          killed |-> [kl EXCEPT ![a] = TRUE]]
    ELSE [signals |-> sn, killed |-> kl]

\* The first loop of close(), over the agents in as.
RECURSIVE EndAndTerm(_, _, _)
EndAndTerm(as, sn, kl) ==
    IF as = {} THEN [signals |-> sn, killed |-> kl]
    ELSE LET a == CHOOSE x \in as : \A y \in as : x <= y
             k == Kill(a, "SIGTERM", [sn EXCEPT ![a] = Append(@, "end")], kl)
         IN  IF kl[a] THEN EndAndTerm(as \ {a}, sn, kl)
             ELSE EndAndTerm(as \ {a}, k.signals, k.killed)

\* The second loop of close(), over the agents in as.
RECURSIVE KillLeft(_, _, _)
KillLeft(as, sn, kl) ==
    IF as = {} THEN [signals |-> sn, killed |-> kl]
    ELSE LET a == CHOOSE x \in as : \A y \in as : x <= y
             k == Kill(a, "SIGKILL", sn, kl)
         IN  IF kl[a] THEN KillLeft(as \ {a}, sn, kl)
             ELSE KillLeft(as \ {a}, k.signals, k.killed)

\* close() up to its timer.
CloseCall ==
    /\ closePc = "idle"
    /\ poolAgents # {}
    /\ LET k == EndAndTerm(poolAgents, signals, killed)
       IN  signals' = k.signals /\ killed' = k.killed
    /\ closePc' = "grace"
    /\ UNCHANGED <<transfer, writeVars, codecVars, enumVars, agentVars, poolAgents, procState>>

\* The process of an agent exits, signalled or not.
ProcExits ==
    /\ \E a \in DOMAIN procState :
          /\ procState[a] = "running"
          /\ procState' = [procState EXCEPT ![a] = "exited"]
    /\ UNCHANGED <<transfer, writeVars, codecVars, enumVars, agentVars, poolAgents, killed,
                   signals, closePc>>

\* close() after its 500 ms timer.
GraceEnds ==
    /\ closePc = "grace"
    /\ LET k == KillLeft(poolAgents, signals, killed)
       IN  signals' = k.signals /\ killed' = k.killed
    /\ poolAgents' = {}
    /\ closePc' = "closed"
    /\ UNCHANGED <<transfer, writeVars, codecVars, enumVars, agentVars, procState>>

InitClose ==
    /\ InitStill
    /\ CodecIdle
    /\ EnumIdle
    /\ AgentIdle
    /\ WriteIdle
    /\ poolAgents \in ClosePools
    /\ procState \in [poolAgents -> {"running", "exited"}]
    /\ killed = [a \in poolAgents |-> FALSE]
    /\ signals = [a \in poolAgents |-> <<>>]
    /\ closePc = "idle"

NextClose == CloseCall \/ ProcExits \/ GraceEnds

SpecClose == InitClose /\ [][NextClose]_vars

CloseSteps == <<"end", "SIGTERM", "SIGKILL">>

InCloseOrder(log) == log = SubSeq(CloseSteps, 1, Len(log))

GraceOver == closePc = "grace" /\ closePc' = "closed"

\* C32: what close() does to a process is, in this order, the end of its
\* stdin, SIGTERM, SIGKILL; every process that still runs when the grace
\* period is over is signals SIGKILL; after close() the pool holds no agent.
C32_TermThenKill ==
    [][/\ \A a \in DOMAIN signals : InCloseOrder(signals'[a])
       /\ closePc' = "closed" => poolAgents' = {}
       /\ GraceOver =>
             \A a \in poolAgents :
                 procState[a] = "running" => signals'[a] = CloseSteps]_vars

\* What close() does: stdin is ended, every running process is signals
\* SIGTERM, and the pool is emptied; a process that was signals SIGTERM is
\* not signals SIGKILL.
C32_TermOnly ==
    [][/\ \A a \in DOMAIN signals : InCloseOrder(signals'[a])
       /\ closePc' = "closed" => poolAgents' = {}
       /\ closePc = "idle" /\ closePc' = "grace" =>
             \A a \in poolAgents :
                 signals'[a] = IF procState[a] = "running"
                            THEN <<"end", "SIGTERM">> ELSE <<"end">>
       /\ GraceOver => signals' = signals]_vars

\* close() is over and a process that was signals SIGTERM still runs.
C32_SurvivorWitness ==
    /\ closePc = "closed"
    /\ \E a \in DOMAIN procState :
          procState[a] = "running" /\ signals[a] = <<"end", "SIGTERM">>

\* ---------------------------------------------------------------------
\* A transfer in which the local file system refuses some renames.

MaxRenameErrors == 3

InitRename ==
    /\ InitTransfer(FileLists(SchedSizes), TunnelCounts, Thresholds)
    /\ UnitsIdle
    /\ renameLeft \in 1..MaxRenameErrors
    /\ errorText = RemoteError
    /\ errorListener = TRUE
    /\ Connected

SpecRename == InitRename /\ [][NextLive]_vars

\* renameSync throws in this step.
RenameThrows == renameLeft' < renameLeft

\* C33: when the rename that finalizes a file throws, the scheduler
\* rejects (so that download() throws and neither file:complete for the
\* file nor `complete` is emitted).
C33_RenameFailureRejects == [][RenameThrows => result' = "rejected"]_vars

\* What onJobFailed does with the error of the rename: it is handled
\* job-level, and the scheduler rejects exactly when the job has used up
\* its retries.
C33_RenameFailureIsJobLevel ==
    [][RenameThrows /\ result = "pending" =>
          /\ JobLevelHandling
          /\ result' = "rejected" <=> jobRetries'[failLog'.job] >= maxRetries]_vars

\* The rename of a file was refused, the job ran again and the transfer
\* resolved with the file in place.
C33_RetriedWitness ==
    /\ NoSharedLocalPath
    /\ result = "done"
    /\ \E j \in hadJobError : j \in completedJobs /\ finalBy[jobs[j].localPath] = jobs[j].file

\* ---------------------------------------------------------------------
\* The jobs of one file on a pool of agents, byte by byte.  The remote file
\* may have another size when it is read than when it was listed; a stall
\* or a refused local write may end an attempt.

MaxWriteSize == 3
MaxWriters == 2

\* actual_len of the agent, for a request of len bytes at offset of a file
\* of `size` bytes.
ActualLen(len, size, offset) == Min(len, Max(0, size - offset))

\* The offset and the length a job asks for.
OffsetOf(job) == IF job.type = "range" THEN job.rangeStart ELSE 0

LengthOf(job, size) ==
    IF job.type = "range" THEN job.rangeEnd - job.rangeStart + 1 ELSE size

\* processQueue: the jobs at the head of the queue go to the first agents
\* that are neither busy nor unhealthy; the attempt starts at the offset of
\* the job with nothing written.
RECURSIVE WriteQueue(_, _, _, _)
WriteQueue(s, js, n, bad) ==
    LET free == {a \in 1..n : s.phase[a] = "idle" /\ ~bad[a]}
        a == CHOOSE x \in free : \A y \in free : x <= y
        j == Head(s.q)
    IN  IF s.q = <<>> \/ free = {} THEN s
        ELSE WriteQueue([s EXCEPT !.q = Tail(@), !.job[a] = j,
                                  !.phase[a] = "header",
                                  !.pos[a] = OffsetOf(js[j]), !.bytes[a] = 0],
                        js, n, bad)

WCur ==
    [q |-> waiting, job |-> writerJob, phase |-> writerPhase, pos |-> position,
     bytes |-> bytesWritten, tries |-> writeRetries, rec |-> recorded]

WCommit(s) ==
    /\ waiting' = s.q
    /\ writerJob' = s.job
    /\ writerPhase' = s.phase
    /\ position' = s.pos
    /\ bytesWritten' = s.bytes
    /\ writeRetries' = s.tries
    /\ recorded' = s.rec

JobFailed == -2
NotRecorded == -1

\* onJobComplete of the job of agent a: the bytes of the attempt are the
\* result of the job; then processQueue.
WComplete(s, a, bad) ==
    WriteQueue([s EXCEPT !.job[a] = 0, !.phase[a] = "idle",
                         !.rec[s.job[a]] = s.bytes[a]],
               planned, writers, bad)

\* onJobFailed of the job of agent a, `bad` being the unhealthy flags after
\* markUnhealthy: an agent error with a healthy agent left requeues the job
\* uncounted; any other failure counts, requeues the job below maxRetries
\* and fails it for good at maxRetries.
WFailed(s, a, agentError, bad) ==
    LET j == s.job[a]
        freed == [s EXCEPT !.job[a] = 0, !.phase[a] = "idle"]
        healthyCount == Cardinality({b \in 1..writers : ~bad[b]})
        counted == [freed EXCEPT !.tries[j] = @ + 1]
    IN  IF agentError /\ healthyCount > 0
        THEN WriteQueue([freed EXCEPT !.q = Append(@, j)], planned, writers, bad)
        ELSE IF counted.tries[j] < maxRetries
        THEN WriteQueue([counted EXCEPT !.q = Append(@, j)], planned, writers, bad)
        ELSE [counted EXCEPT !.rec[j] = JobFailed]

writeInputs == <<listedSize, remoteNow, planned, writers>>

\* The 9 bytes of a response header arrive.  With no byte of an abandoned
\* response in the channel they are the header the agent wrote; otherwise
\* they are bytes of that response and of what follows it, and the status
\* and the length read from them are any of what the bytes can hold.
WHeader(a) ==
    /\ writerPhase[a] = "header"
    /\ LET job == planned[writerJob[a]]
           respLen == ActualLen(LengthOf(job, listedSize), remoteNow, OffsetOf(job))
       IN  \E ok \in BOOLEAN, g \in 0..(unread[a] + respLen) :
             /\ unread[a] = 0 => ok /\ g = respLen
             /\ misread' = (misread \/ unread[a] > 0)
             /\ unread' = [unread EXCEPT ![a] = @ + respLen - g]
             /\ IF ~ok
                THEN /\ WCommit(WFailed(WCur, a, FALSE, sick))
                     /\ UNCHANGED respLeft
                ELSE IF g = 0
                THEN /\ WCommit(WComplete(WCur, a, sick))
                     /\ UNCHANGED respLeft
                ELSE /\ respLeft' = [respLeft EXCEPT ![a] = g]
                     /\ WCommit([WCur EXCEPT !.phase[a] = "body"])
    /\ UNCHANGED <<transfer, codecVars, enumVars, agentVars, closeVars,
                   writeInputs, sick, disk>>

\* A chunk of n bytes is taken from the read buffer and written at
\* `position`; with the last byte of the response the job completes.
WChunk(a) ==
    /\ writerPhase[a] = "body"
    /\ \E n \in 1..respLeft[a] :
          LET j == writerJob[a]
              s == [WCur EXCEPT !.pos[a] = @ + n, !.bytes[a] = @ + n]
          IN  /\ disk' = disk \cup {<<position[a] + i, j>> : i \in 0..(n - 1)}
              /\ respLeft' = [respLeft EXCEPT ![a] = @ - n]
              /\ IF respLeft[a] = n
                 THEN WCommit(WComplete(s, a, sick))
                 ELSE WCommit(s)
    /\ UNCHANGED <<transfer, codecVars, enumVars, agentVars, closeVars,
                   writeInputs, unread, sick, misread>>

\* writeSync throws on a chunk of n bytes that was taken from the read
\* buffer: the error is no agent error, so the agent is released as it is,
\* with the rest of the response still to arrive in its channel.
WSinkFails(a) ==
    /\ writerPhase[a] = "body"
    /\ \E n \in 1..respLeft[a] :
          /\ unread' = [unread EXCEPT ![a] = @ + respLeft[a] - n]
          /\ respLeft' = [respLeft EXCEPT ![a] = 0]
    /\ WCommit(WFailed(WCur, a, FALSE, sick))
    /\ UNCHANGED <<transfer, codecVars, enumVars, agentVars, closeVars,
                   writeInputs, sick, disk, misread>>

\* The stall timer of a pending read fires, or the channel closes: an agent
\* error, the agent is marked unhealthy.
WStall(a) ==
    /\ writerPhase[a] \in {"header", "body"}
    /\ sick' = [sick EXCEPT ![a] = TRUE]
    /\ respLeft' = [respLeft EXCEPT ![a] = 0]
    /\ WCommit(WFailed(WCur, a, TRUE, sick'))
    /\ UNCHANGED <<transfer, codecVars, enumVars, agentVars, closeVars,
                   writeInputs, unread, disk, misread>>

WriteThresholds == {1, MaxWriteSize + 1}

InitWrite ==
    /\ InitStill
    /\ CodecIdle
    /\ EnumIdle
    /\ AgentIdle
    /\ CloseIdle
    /\ listedSize \in 1..MaxWriteSize
    /\ remoteNow \in 0..(listedSize + 1)
    /\ writers \in 1..MaxWriters
    /\ \E th \in WriteThresholds :
          planned = PlanJobs(<<[size |-> listedSize, localPath |-> 1, skip |-> FALSE]>>,
                             writers, th)
    /\ respLeft = [a \in 1..writers |-> 0]
    /\ unread = [a \in 1..writers |-> 0]
    /\ sick = [a \in 1..writers |-> FALSE]
    /\ disk = {}
    /\ misread = FALSE
    /\ \E s \in {WriteQueue([q |-> [j \in 1..Len(planned) |-> j],
                              job |-> [a \in 1..writers |-> 0],
                              phase |-> [a \in 1..writers |-> "idle"],
                              pos |-> [a \in 1..writers |-> 0],
                              bytes |-> [a \in 1..writers |-> 0],
                              tries |-> [j \in 1..Len(planned) |-> 0],
                              rec |-> [j \in 1..Len(planned) |-> NotRecorded]],
                             planned, writers, sick)} :
          /\ waiting = s.q
          /\ writerJob = s.job
          /\ writerPhase = s.phase
          /\ position = s.pos
          /\ bytesWritten = s.bytes
          /\ writeRetries = s.tries
          /\ recorded = s.rec

NextWrite ==
    \/ \E a \in 1..MaxWriters : a <= writers /\ WHeader(a)
    \/ \E a \in 1..MaxWriters : a <= writers /\ WChunk(a)
    \/ \E a \in 1..MaxWriters : a <= writers /\ WSinkFails(a)
    \/ \E a \in 1..MaxWriters : a <= writers /\ WStall(a)

SpecWrite == InitWrite /\ [][NextWrite]_vars


Writers == 1..writers
Planned == 1..Len(planned)

RangeJobs == {j \in Planned : planned[j].type = "range"}

InOwnRange(w) ==
    /\ planned[w[2]].rangeStart <= w[1]
    /\ w[1] <= planned[w[2]].rangeEnd

\* C34: every byte a Range job writes lies at an offset in [rangeStart,
\* rangeEnd] of that job, so no two Range jobs write the same offset.
C34_RangeWritesInRange ==
    /\ \A w \in disk : w[2] \in RangeJobs => InOwnRange(w)
    /\ \A v, w \in disk :
          v[2] \in RangeJobs /\ w[2] \in RangeJobs /\ v[1] = w[1] => v[2] = w[2]

\* C34, while every header was read from the bytes of a header: the writes
\* of a Range job are in its range, whatever the remote file has become and
\* however often the chunk is retried.
C34_InRangeWhileFramed == misread \/ C34_RangeWritesInRange

\* C34: two Range jobs have written and one of them was retried.
C34_RetriedWitness ==
    /\ ~misread
    /\ \E i, j \in RangeJobs : i # j /\ writeRetries[i] > 0
          /\ recorded[i] > 0 /\ recorded[j] > 0

\* C38: an agent that was acquired for a job and waits for the header of
\* its response has no byte of an earlier response in its channel.
C38_NoLeftoverOnAcquire ==
    \A a \in Writers : writerPhase[a] = "header" => unread[a] = 0

\* C38, as the next request shows it: no header is read from the bytes of
\* an earlier response.
C38_NoHeaderMisread == ~misread

\* C39: a job is recorded as complete only with the planned number of bytes
\* written by its attempt.
C39_CompleteMeansPlannedBytes ==
    \A j \in Planned :
        recorded[j] >= 0 => recorded[j] = LengthOf(planned[j], listedSize)

\* C39, while the remote file is no shorter than it was listed and every
\* header was read from the bytes of a header.
C39_CompleteWhenNotShrunk ==
    (remoteNow >= listedSize /\ ~misread) => C39_CompleteMeansPlannedBytes

\* C39: every job of a file whose remote shrank is recorded as complete.
C39_ShrunkWitness ==
    /\ remoteNow < listedSize
    /\ ~misread
    /\ \A j \in Planned : recorded[j] >= 0


\* C35: every transfer terminates: the promise of downloadFiles is
\* eventually resolved or rejected.
C35_Terminates == <>(result # "pending")

\* C35, as far as it holds: a transfer that does not settle ends in the
\* state where jobs are queued, none is active and no agent is healthy.
C35_TerminatesOrStuck == <>(result # "pending" \/ C8_Stuck)

\* C35: once reached, the stuck state is never left.
C35_StuckForGood == [][C8_Stuck => C8_Stuck']_vars


\* The number of places a job is in: once for each entry of the pending
\* queue and of the active map that holds it, once if it completed, once
\* if it failed for good.
Places(j) ==
    Cardinality({i \in 1..Len(pendingJobs) : pendingJobs[i] = j})
    + Cardinality({a \in Agents : activeJobs[a] = j})
    + (IF j \in completedJobs THEN 1 ELSE 0)
    + (IF j \in failedJobs THEN 1 ELSE 0)

ActiveKeys == {a \in Agents : activeJobs[a] # 0}

BusyAgents == {a \in Agents : busy[a]}

\* C36, first part: once the queue is filled, each planned job is in
\* exactly one of the pending queue, the active map, completed, failed.
C36_EachJobInOnePlace == pc = "running" => \A j \in JobIds : Places(j) = 1

\* C36, second part: the keys of the active map are the busy agents.
C36_ActiveKeysAreBusy == ActiveKeys = BusyAgents

\* C36: each planned job is in exactly one place and the keys of the
\* active map are the agents whose busy flag is set.
C36_SchedulerPartition == C36_EachJobInOnePlace /\ C36_ActiveKeysAreBusy


\* C36, while the pool holds its agents: each planned job is in exactly one
\* place, and until close() has emptied the pool the keys of the active map
\* are the agents whose busy flag is set.
C36_PartitionWhilePoolOpen ==
    /\ C36_EachJobInOnePlace
    /\ ~poolClosed => C36_ActiveKeysAreBusy

\* C36: a job failed for good, one completed and one is active, on a pool
\* that is not closed.
C36_Witness ==
    /\ pc = "running" /\ ~poolClosed
    /\ failedJobs # {} /\ completedJobs # {} /\ ActiveKeys # {}

\* C36: after close() a job that was in flight has ended; its agent keeps
\* the busy flag.
C36_OrphanWitness ==
    /\ poolClosed
    /\ \E a \in Agents : busy[a] /\ activeJobs[a] = 0


\* The step starts a job: file:start is emitted, or an agent gets a job or
\* another call of executeJob, or a job leaves the queue.
StartsJob ==
    \/ \E e \in emitted' : e.type = "file:start"
    \/ \E a \in Agents : activeJobs'[a] \notin {0, activeJobs[a]}
    \/ \E a \in Agents : inFlight'[a] > inFlight[a]

\* C37: once the scheduler has rejected the transfer, no step starts a job.
C37_NoStartAfterRejection == [][result = "rejected" => ~StartsJob]_vars

\* C37, as far as it holds: no job is started once close() has emptied the
\* pool.
C37_NoStartAfterClose == [][poolClosed => ~StartsJob]_vars

\* C37: a job was started while the transfer was rejected and no two files
\* of the list map to one localPath.
C37_StartedAfterRejection ==
    /\ result = "rejected" /\ ~poolClosed
    /\ \A k \in 1..2 : ~SharesLocalPath(k)
    /\ \E e \in emitted : e.type = "file:start"


\* The step spawns an agent process: startAgent runs for it and pushes a
\* new agent to the pool.
Spawns(a) == attempts'[a] > attempts[a] \/ (alive'[a] /\ ~alive[a])

\* C40: after close() has completed no agent process is spawned and no
\* agent is added to the pool.
C40_NoSpawnAfterClose == [][poolClosed => \A a \in Agents : ~Spawns(a)]_vars

\* C40, as far as it holds: after close() only an agent that was waiting
\* in its retry back-off when connect() was rejected is spawned.
C40_OnlyBackoffSpawnsAfterClose ==
    [][poolClosed => \A a \in Agents : Spawns(a) => startup[a] = "retry" /\ pc = "failed"]_vars

====
